---- MODULE Spec2Model ----
(***************************************************************************)
(* Post tracking of the ImagingPlatform repository: the data model         *)
(* (Spot, Well, Quadrant, TimePoint), the detection and tracking engines   *)
(* (detect_spot, track_spot, _detect_spot) and the sequential tracking     *)
(* driver (TrackingWorker.run), together with the manual detection of the  *)
(* scene (CustomScene._leftMouseReleaseEvent).                             *)
(***************************************************************************)
EXTENDS Integers, Sequences, FiniteSets, TLC

\* ------------------------------------------------------------------ bounds
\* Largest number of timepoints loaded (len(timepoints) ranges over 0..MaxT).
MaxT == 3
\* Largest number of manual operations (detections, deletions) done after
\* the initial seeding.
MaxManual == 1

\* ------------------------------------------------------- optional values
\* Python's None for an Optional[Spot]: the option is a sequence of length
\* at most one.
None == <<>>
Some(v) == <<v>>
IsNone(o) == o = <<>>
Val(o) == o[1]

\* Python's None for Optional[int] (Spot.radius, min_radius, max_radius): a
\* value no radius of the program takes.
NoneInt == -1

\* ------------------------------------------------------------- data model
\* A Spot object: the dataclass fields x, y, radius and the identity of the
\* object (obj), named after the slot the constructor call stored it in.
Spot(x, y, radius, obj) == [x |-> x, y |-> y, radius |-> radius, obj |-> obj]

\* Well(id): both spots None.
Well(id) == [id |-> id, spot_1 |-> None, spot_2 |-> None]

\* Well.is_defined
IsDefined(well) == ~IsNone(well.spot_1) /\ ~IsNone(well.spot_2)

\* Quadrant(path, acq_time, id) with the default wells Well(0) and Well(1).
Quadrant(path, id) ==
  [path |-> path, id |-> id, well_1 |-> Well(0), well_2 |-> Well(1)]

QuadBoolBothWells(quad) == IsDefined(quad.well_1) /\ IsDefined(quad.well_2)

\* Quadrant.__bool__
QuadBool(quad) == IsDefined(quad.well_1) \/ IsDefined(quad.well_2)

\* Quadrant.__iter__ : the wells, left first.
QuadWells(quad) == <<quad.well_1, quad.well_2>>

\* TimePoint.__iter__ : the quadrants in the order A, B, C, D.
TPQuads(tp) == <<tp.A, tp.B, tp.C, tp.D>>

\* TimePoint.__bool__
TPBool(tp) == QuadBool(tp.A) \/ QuadBool(tp.B) \/ QuadBool(tp.C) \/ QuadBool(tp.D)

\* The field holding the quadrant of camera q, the well of index w and the
\* spot of index s (TimePoint.__getitem__, Quadrant.__getitem__,
\* Well.__getitem__ for the non-negative indices).
QuadField(q) == <<"A", "B", "C", "D">>[q + 1]
WellField(w) == <<"well_1", "well_2">>[w + 1]
SpotField(s) == <<"spot_1", "spot_2">>[s + 1]

\* The TimePoint built for the images of time t: quadrant ids 0..3 in the
\* slots A..D, the path of a quadrant naming its image <<t, camera>>.
NewTimePoint(t) ==
  [A |-> Quadrant(<<t, 0>>, 0), B |-> Quadrant(<<t, 1>>, 1),
   C |-> Quadrant(<<t, 2>>, 2), D |-> Quadrant(<<t, 3>>, 3)]

\* The spot option stored at timepoint t, quadrant q, well w, spot s.
SpotAt(tps, t, q, w, s) == tps[t][QuadField(q)][WellField(w)][SpotField(s)]
WellAt(tps, t, q, w) == tps[t][QuadField(q)][WellField(w)]

\* Assignment well.spot_1 = v / well.spot_2 = v on the well of (t, q, w).
SetSpot(tps, t, q, w, s, v) ==
  [tps EXCEPT ![t][QuadField(q)][WellField(w)][SpotField(s)] = v]

\* The slot names used as object identities.
Slot(t, q, w, s) == <<t, q, w, s>>

\* ----------------------------------------------------------------- images
\* An image is its shape and the circular blobs visible in it, a blob being
\* the column cx and row cy of its centre and its radius r.
Circle(cx, cy, r) == [cx |-> cx, cy |-> cy, r |-> r]
Image(circles) == [rows |-> 120, cols |-> 200, circles |-> circles]

\* The image sequences a run can be loaded with.  The four posts of a
\* quadrant lie on one row and drift by 3 columns per timepoint; a static
\* reflection lies below the second post.
\*   "steady": every post keeps its radius at every timepoint;
\*   "jump":   the first post of the left well is seen with radius 12 from
\*             timepoint 1 on.
ImageSeqs == {"steady", "jump"}

PostCircle(seq, t, k) ==
  Circle(40 + 40 * k + 3 * t, 50,
         IF seq = "jump" /\ k = 0 /\ t >= 1 THEN 12 ELSE 8)

Reflection == Circle(80, 85, 8)

\* Image.open(quadrant.path) for the path <<t, camera>>: the four cameras
\* see the same layout.
ImageOf(seq, path) ==
  LET t == path[1] IN
  Image({PostCircle(seq, t, k) : k \in 0..3} \cup {Reflection})

\* ---------------------------------------------------------------- engines
\* Result of an engine call: a value ("found"), Python's None ("none") or an
\* exception leaving the call ("raise").
Found(v) == [kind |-> "found", val |-> v]
NotFound == [kind |-> "none", val |-> <<>>]
Raised == [kind |-> "raise", val |-> <<>>]

Min2(a, b) == IF a <= b THEN a ELSE b
Max2(a, b) == IF a >= b THEN a ELSE b

\* The bounds <<lo, hi>> numpy gives the slice [a:b] of an axis of length n.
PySlice(a, b, n) ==
  LET lo == IF a < 0 THEN Max2(a + n, 0) ELSE Min2(a, n)
      hi == IF b < 0 THEN Max2(b + n, 0) ELSE Min2(b, n)
  IN <<lo, Max2(lo, hi)>>

\* int(v * 0.75) and int(v * 1.25) for a non-negative integer v.
ThreeQuarters(v) == (3 * v) \div 4
FiveQuarters(v) == (5 * v) \div 4

\* The radius band handed to cv2.HoughCircles.
MinRad(shape, min_radius, prev_rad) ==
  LET derived == IF prev_rad = NoneInt THEN Min2(shape[1], shape[2]) \div 4
                 ELSE ThreeQuarters(prev_rad)
  IN IF min_radius # NoneInt THEN Max2(derived, min_radius) ELSE derived

MaxRad(shape, max_radius, prev_rad) ==
  LET derived == IF prev_rad = NoneInt THEN Min2(shape[1], shape[2]) * 2
                 ELSE FiveQuarters(prev_rad)
  IN IF max_radius # NoneInt THEN Min2(derived, max_radius) ELSE derived

\* Two blobs that touch or overlap make one contour.
DistSq(a, b) ==
  (a.cx - b.cx) * (a.cx - b.cx) + (a.cy - b.cy) * (a.cy - b.cy)

Touching(a, b) == DistSq(a, b) <= (a.r + b.r) * (a.r + b.r)

RECURSIVE ContourOf(_, _)
ContourOf(blobs, part) ==
  LET more == {b \in blobs \ part : \E a \in part : Touching(a, b)}
  IN IF more = {} THEN part ELSE ContourOf(blobs, part \cup more)

\* cv2.arcLength of the contour of a set of blobs, up to the factor 2 * pi.
RECURSIVE ArcLength(_)
ArcLength(part) ==
  IF part = {} THEN 0
  ELSE LET b == CHOOSE c \in part : TRUE
       IN b.r + ArcLength(part \ {b})

\* The mask drawn for the sub-image spanning the rows rows[1]..rows[2]-1 and
\* the columns cols[1]..cols[2]-1: of the blobs whose centre lies in the
\* sub-image, those of the contour of the longest perimeter (no sub-image
\* of the images modelled holds two contours of the same perimeter).
Mask(image, rows, cols) ==
  LET blobs == {c \in image.circles :
                  /\ rows[1] <= c.cy /\ c.cy < rows[2]
                  /\ cols[1] <= c.cx /\ c.cx < cols[2]}
      contours == {ContourOf(blobs, {b}) : b \in blobs}
  IN IF blobs = {} THEN {}
     ELSE CHOOSE k \in contours :
            \A o \in contours : ArcLength(o) <= ArcLength(k)

\* The circles cv2.HoughCircles fits on the mask of the sub-image: the blobs
\* of the mask whose radius lies in the band, but for those closer than the
\* longer side of the sub-image (minDist) to a blob of greater radius, which
\* collects more votes.
HoughCircles(image, rows, cols, min_rad, max_rad) ==
  LET min_dist == Max2(rows[2] - rows[1], cols[2] - cols[1])
      fits == {c \in Mask(image, rows, cols) :
                 min_rad <= c.r /\ c.r <= max_rad}
  IN {c \in fits :
        \A d \in fits : d.r > c.r => DistSq(c, d) >= min_dist * min_dist}

\* _detect_spot(roi, min_radius, max_radius, prev_rad), the roi being the
\* sub-image image[rows[1]:rows[2], cols[1]:cols[2]].  The value found is
\* <<column of the centre, row of the centre, radius>>, relative to the roi.
DetectInRoi(image, rows, cols, min_radius, max_radius, prev_rad) ==
  LET shape == <<rows[2] - rows[1], cols[2] - cols[1]>>
      detect == HoughCircles(image, rows, cols,
                             MinRad(shape, min_radius, prev_rad),
                             MaxRad(shape, max_radius, prev_rad))
  IN IF shape[1] = 0 \/ shape[2] = 0 THEN Raised
     ELSE IF detect = {} THEN NotFound
     ELSE IF Cardinality(detect) > 1 THEN NotFound
     ELSE LET c == CHOOSE d \in detect : TRUE
          IN Found(<<c.cx - cols[1], c.cy - rows[1], c.r>>)

\* detect_spot without the test for an empty selection box.
DetectSpotNoEmptyTest(image, y_1, x_1, y_2, x_2, min_radius, max_radius) ==
  LET xa == Min2(x_1, x_2)
      xb == Max2(x_1, x_2)
      ya == Min2(y_1, y_2)
      yb == Max2(y_1, y_2)
      ret == DetectInRoi(image, PySlice(xa, xb, image.rows),
                         PySlice(ya, yb, image.cols),
                         min_radius, max_radius, NoneInt)
  IN IF ret.kind # "found" THEN ret
     ELSE LET x == ret.val[1]
              y == ret.val[2]
              r == ret.val[3]
          IN Found(<<ya + y, xa + x, r>>)

\* detect_spot without the sorting of the coordinates.
DetectSpotUnsorted(image, y_1, x_1, y_2, x_2, min_radius, max_radius) ==
  LET ret == DetectInRoi(image, PySlice(x_1, x_2, image.rows),
                         PySlice(y_1, y_2, image.cols),
                         min_radius, max_radius, NoneInt)
  IN IF x_1 = x_2 \/ y_1 = y_2 THEN NotFound
     ELSE IF ret.kind # "found" THEN ret
     ELSE LET x == ret.val[1]
              y == ret.val[2]
              r == ret.val[3]
          IN Found(<<y_1 + y, x_1 + x, r>>)

\* detect_spot(image, y_1, x_1, y_2, x_2, min_radius, max_radius): the value
\* found is <<x, y, radius>> of the Spot constructed.
DetectSpot(image, y_1, x_1, y_2, x_2, min_radius, max_radius) ==
  LET xa == Min2(x_1, x_2)
      xb == Max2(x_1, x_2)
      ya == Min2(y_1, y_2)
      yb == Max2(y_1, y_2)
      ret == DetectInRoi(image, PySlice(xa, xb, image.rows),
                         PySlice(ya, yb, image.cols),
                         min_radius, max_radius, NoneInt)
  IN IF xa = xb \/ ya = yb THEN NotFound
     ELSE IF ret.kind # "found" THEN ret
     ELSE LET x == ret.val[1]
              y == ret.val[2]
              r == ret.val[3]
          IN Found(<<ya + y, xa + x, r>>)

\* track_spot returning the centre as _detect_spot gives it, relative to the
\* subframe.
TrackSpotRelative(image, spot, offset, min_radius, max_radius) ==
  IF spot.radius = NoneInt THEN Raised
  ELSE
  LET ret == DetectInRoi(image,
                         PySlice(spot.y - spot.radius - offset,
                                 spot.y + spot.radius + offset, image.rows),
                         PySlice(spot.x - spot.radius - offset,
                                 spot.x + spot.radius + offset, image.cols),
                         min_radius, max_radius, spot.radius)
  IN IF ret.kind # "found" THEN ret
     ELSE Found(<<ret.val[1], ret.val[2], ret.val[3]>>)

\* track_spot(image, spot, offset, min_radius, max_radius): the value found
\* is <<x, y, radius>> of the new Spot constructed.
TrackSpot(image, spot, offset, min_radius, max_radius) ==
  IF spot.radius = NoneInt THEN Raised
  ELSE
  LET ret == DetectInRoi(image,
                         PySlice(spot.y - spot.radius - offset,
                                 spot.y + spot.radius + offset, image.rows),
                         PySlice(spot.x - spot.radius - offset,
                                 spot.x + spot.radius + offset, image.cols),
                         min_radius, max_radius, spot.radius)
  IN IF ret.kind # "found" THEN ret
     ELSE LET x == ret.val[1]
              y == ret.val[2]
              r == ret.val[3]
          IN Found(<<spot.x - spot.radius - offset + x,
                     spot.y - spot.radius - offset + y, r>>)

\* ------------------------------------------------------------------ state
VARIABLES
  timepoints,   \* MainWindow.timepoints: the TimePoints, indexed from 0
  imgseq,       \* the image sequence the timepoints were loaded from
  quadrant,     \* MainWindow.quadrant: the camera the driver processes
  min_radius,   \* MainWindow.min_radius
  max_radius,   \* MainWindow.max_radius
  stop_thread,  \* MainWindow.stop_thread: the cooperative stop flag
  time_idx,     \* index of the timepoint shown (time_combo.currentIndex)
  selected,     \* posts_table.selected / CustomScene._selected_index
  pc,           \* position of the worker in TrackingWorker.run
  i,            \* loop index of run: the pair (timepoints[i], timepoints[i+1])
  qd,           \* index of the quadrant pair the worker is on
  w,            \* index of the well the worker is on
  calls,        \* the track_spot calls made since the last run started or
                \* the last manual operation was done, in order
  signals,      \* the values emitted by the worker in the current run
  start,        \* timepoints when the first run after the last manual
                \* operation started (None before it)
  manualOps,    \* number of manual operations done
  shown,        \* index of the timepoint whose image the scene holds
                \* (CustomScene._img, set by reload_image_in_scene)
  lost,         \* the well-tracks <<quadrant, well, timepoint>> lost in the
                \* runs before the current one and not edited by hand since
  probe         \* the last call of a function of the engines or of the data
                \* model made on its own, with its arguments and its outcome

vars == <<timepoints, imgseq, quadrant, min_radius, max_radius, stop_thread,
          time_idx, selected, pc, i, qd, w, calls, signals, start, manualOps,
          shown, lost, probe>>

\* The variables of the main window and of the worker.
windowVars == <<timepoints, imgseq, quadrant, min_radius, max_radius,
                stop_thread, time_idx, selected, pc, i, qd, w, calls, signals,
                start, manualOps, shown, lost>>

\* No function was called on its own.
NoCall == [fn |-> "none"]

\* len(self._parent.timepoints)
NbTimepoints == Cardinality(DOMAIN timepoints)

\* CustomScene._quadrant: the quadrant shown, set by reload_image_in_scene
\* when the time index changes.
SceneQuadrant == timepoints[time_idx][QuadField(quadrant)]

\* CustomScene._img: the image the scene holds, opened by the last
\* reload_image_in_scene.
SceneImg == ImageOf(imgseq, <<shown, quadrant>>)

\* -------------------------------------------------------- manual detection
\* The selection rectangle (x1, y1, x2, y2) the operator drags: a square
\* around post k as timepoint t shows it, a square around the reflection, or
\* a wide square around the second post.
RectKinds == {"post", "reflection", "wide"}
SelectRect(t, k, kind) ==
  IF kind = "post"
  THEN <<40 + 40 * k + 3 * t - 12, 38, 40 + 40 * k + 3 * t + 12, 62>>
  ELSE IF kind = "reflection" THEN <<70, 75, 90, 95>>
  ELSE <<60, 30, 100, 70>>

\* The rectangles the operator drags for the post k: the reflection lies
\* under the second post of the left well, the only post it is taken for.
RectKindsFor(k) == IF k = 1 THEN RectKinds ELSE {"post"}

\* CustomScene._leftMouseReleaseEvent on the quadrant (t, q) shown with the
\* post k selected: the detected spot, if any, is assigned to the well and
\* position of index k.
LeftMouseRelease(tps, seq, t, q, k, rect) ==
  LET detected == DetectSpot(ImageOf(seq, <<t, q>>),
                             rect[1], rect[2], rect[3], rect[4],
                             NoneInt, NoneInt)
      wi == k \div 2
      si == k % 2
  IN IF detected.kind = "found"
     THEN SetSpot(tps, t, q, wi, si,
                  Some(Spot(detected.val[1], detected.val[2],
                            detected.val[3], Slot(t, q, wi, si))))
     ELSE tps

\* The posts the operator seeded before the first run, each entry being
\* <<timepoint, camera relative to the processed one, post index, rectangle>>.
Seeds ==
  { {},
    {<<0, 0, 0, "post">>, <<0, 0, 1, "post">>},
    {<<0, 0, 0, "post">>, <<0, 0, 1, "post">>,
     <<0, 0, 2, "post">>, <<0, 0, 3, "post">>},
    {<<0, 0, 0, "post">>, <<0, 0, 1, "post">>, <<1, 0, 0, "post">>},
    {<<0, 0, 0, "post">>, <<0, 0, 1, "post">>, <<1, 0, 1, "reflection">>},
    {<<0, 0, 0, "post">>, <<0, 0, 1, "post">>,
     <<1, 0, 0, "post">>, <<1, 0, 1, "post">>},
    {<<1, 0, 0, "post">>, <<1, 0, 1, "post">>},
    {<<0, 1, 0, "post">>, <<0, 1, 1, "post">>},
    {<<0, 0, 0, "post">>, <<0, 0, 1, "post">>,
     <<0, 1, 0, "post">>, <<0, 1, 1, "post">>},
    {<<0, 0, 0, "post">>} }

RECURSIVE Seeded(_, _, _, _)
\* The timepoints after the manual detections of the entries of seed.
Seeded(tps, seq, q0, seed) ==
  IF seed = {} THEN tps
  ELSE LET e == CHOOSE x \in seed : TRUE
           q == (q0 + e[2]) % 4
       IN Seeded(IF e[1] \in DOMAIN tps
                 THEN LeftMouseRelease(tps, seq, e[1], q, e[3],
                                       SelectRect(e[1], e[3], e[4]))
                 ELSE tps,
                 seq, q0, seed \ {e})

\* The cameras the operator designates for the runs: the first and the last
\* quadrant of a timepoint.
Designated == {0, 3}

\* The state once the images are loaded (MainWindow.load_images builds one
\* TimePoint per four images) and the operator has seeded some posts.
Init ==
  /\ \E n \in 0..MaxT, seq \in ImageSeqs, q0 \in Designated, seed \in Seeds :
       /\ imgseq = seq
       /\ quadrant = q0
       /\ timepoints = Seeded([t \in 0..(n - 1) |-> NewTimePoint(t)],
                              seq, q0, seed)
  /\ min_radius = NoneInt
  /\ max_radius = NoneInt
  /\ stop_thread = FALSE
  /\ time_idx = 0
  /\ selected = 0
  /\ pc = "idle"
  /\ i = 0
  /\ qd = 0
  /\ w = 0
  /\ calls = <<>>
  /\ signals = <<>>
  /\ start = None
  /\ manualOps = 0
  /\ shown = 0
  /\ lost = {}
  /\ probe = NoCall

\* ----------------------------------------------------------------- driver
\* The margin the driver hands to track_spot.
Offset == 10

Running == pc \in {"head", "well", "track1", "track2"}

\* The progress counted in hundredths.
ProgressPercent(idx, nb_iter) == ((idx + 1) * 100) \div nb_iter

\* int((i + 1) / nb_iter * 1000)
Progress(idx, nb_iter) == ((idx + 1) * 1000) \div nb_iter

\* QuadProcessed without the test of the quadrant id.
QuadProcessedAnyId(prev_quad, current_quad, designated) ==
  QuadBool(prev_quad)

\* Whether the worker enters the loop over the wells for the pair of
\* quadrants of index q: "if not prev_quad: continue" and
\* "if current_quad.id != self._parent.quadrant: continue".
QuadProcessed(prev_quad, current_quad, designated) ==
  QuadBool(prev_quad) /\ current_quad.id = designated

\* The first pair of quadrants of index >= from the worker processes in the
\* pair of timepoints (prev, current); 4 when there is none.
NextQuad(prev, current, designated, from) ==
  LET qs == {q \in from..3 : QuadProcessed(TPQuads(prev)[q + 1],
                                           TPQuads(current)[q + 1],
                                           designated)}
  IN IF qs = {} THEN 4 ELSE CHOOSE q \in qs : \A r \in qs : q <= r

\* WellProcessed without the test of the current well.
WellProcessedPrevOnly(prev_well, current_well) == IsDefined(prev_well)

\* Whether the worker tracks the pair of wells (prev_well, current_well):
\* "if not prev_well.is_defined: continue" and
\* "if current_well.is_defined: continue".
WellProcessed(prev_well, current_well) ==
  IsDefined(prev_well) /\ ~IsDefined(current_well)

\* The call track_spot(np.array(scene.img), seed, 10, min_radius,
\* max_radius) of the worker; a seed that is None has no attribute y.
TrackCall(image, seed, lo, hi) ==
  IF IsNone(seed) THEN Raised
  ELSE TrackSpot(image, Val(seed), Offset, lo, hi)

\* TrackedSpot returning the seed object, updated in place.
TrackedSpotInPlace(ret, seed, slot) ==
  Spot(ret.val[1], ret.val[2], ret.val[3], Val(seed).obj)

\* The Spot object track_spot returns for the slot: a new object.
TrackedSpot(ret, seed, slot) ==
  Spot(ret.val[1], ret.val[2], ret.val[3], slot)

\* The store of the worker keeping the spot of the previous timepoint when
\* track_spot returned None.
StoreTrackedGuess(tps, t, q, wi, si, ret) ==
  IF ret.kind = "found"
  THEN SetSpot(tps, t, q, wi, si,
               Some(TrackedSpot(ret, SpotAt(tps, t - 1, q, wi, si),
                                Slot(t, q, wi, si))))
  ELSE IF ret.kind = "none"
  THEN SetSpot(tps, t, q, wi, si, SpotAt(tps, t - 1, q, wi, si))
  ELSE tps

\* "if ret is not None: current_well.spot_s = ret" for the spot s of the
\* well wi of quadrant q of timepoint t, tracked from timepoint t - 1.
StoreTracked(tps, t, q, wi, si, ret) ==
  IF ret.kind = "found"
  THEN SetSpot(tps, t, q, wi, si,
               Some(TrackedSpot(ret, SpotAt(tps, t - 1, q, wi, si),
                                Slot(t, q, wi, si))))
  ELSE tps

\* AfterWell going back to the head of the loop for the same pair of
\* timepoints.
AfterWellSamePair(tps, designated, idx, q, wi) ==
  IF wi = 0 THEN [pc |-> "well", i |-> idx, qd |-> q, w |-> 1]
  ELSE LET nq == NextQuad(tps[idx], tps[idx + 1], designated, q + 1)
       IN IF nq < 4 THEN [pc |-> "well", i |-> idx, qd |-> nq, w |-> 0]
          ELSE [pc |-> "head", i |-> idx, qd |-> 0, w |-> 0]

\* AfterWell leaving the loop over the wells as soon as a well is left
\* undefined.
AfterWellBreak(tps, designated, idx, q, wi) ==
  IF wi = 0 /\ IsDefined(WellAt(tps, idx + 1, q, wi))
  THEN [pc |-> "well", i |-> idx, qd |-> q, w |-> 1]
  ELSE [pc |-> "head", i |-> idx + 1, qd |-> 0, w |-> 0]

\* The position of the worker after the well wi of the quadrant pair q of
\* the pair of timepoints idx: the next well, the next quadrant pair
\* processed, or the head of the loop for the next pair of timepoints.
AfterWell(tps, designated, idx, q, wi) ==
  IF wi = 0 THEN [pc |-> "well", i |-> idx, qd |-> q, w |-> 1]
  ELSE LET nq == NextQuad(tps[idx], tps[idx + 1], designated, q + 1)
       IN IF nq < 4 THEN [pc |-> "well", i |-> idx, qd |-> nq, w |-> 0]
          ELSE [pc |-> "head", i |-> idx + 1, qd |-> 0, w |-> 0]

Goto(pos) ==
  /\ pc' = pos.pc
  /\ i' = pos.i
  /\ qd' = pos.qd
  /\ w' = pos.w

\* The well-tracks <<quadrant, well, timepoint>> for which a logged call
\* returned None.
LostIn(cs) ==
  {<<cs[k].q, cs[k].w, cs[k].t>> :
     k \in {j \in 1..Len(cs) : cs[j].ret.kind = "none"}}

\* The well-tracks lost so far once the operator has edited a spot of the
\* well wi of the quadrant q.
LostAfterEdit(q, wi) ==
  {l \in lost \cup LostIn(calls) : l[1] # q \/ l[2] # wi}

\* QThreadPool.start(TrackingWorker(main_window)): a run starts.
StartRun ==
  /\ ~Running
  /\ shown = time_idx
  /\ stop_thread' = FALSE
  /\ Goto([pc |-> "head", i |-> 0, qd |-> 0, w |-> 0])
  /\ calls' = <<>>
  /\ signals' = <<>>
  /\ start' = IF IsNone(start) THEN Some(timepoints) ELSE start
  /\ lost' = lost \cup LostIn(calls)
  /\ UNCHANGED <<probe, shown,
                 timepoints, imgseq, quadrant, min_radius, max_radius,
                 time_idx, selected, manualOps>>

\* AfterHead returning when the predecessor holds no defined well.
AfterHeadStopUnseeded(tps, designated, idx, stop) ==
  IF stop \/ ~TPBool(tps[idx])
  THEN [pc |-> "returned", i |-> idx, qd |-> 0, w |-> 0]
  ELSE LET nq == NextQuad(tps[idx], tps[idx + 1], designated, 0)
       IN IF nq < 4 THEN [pc |-> "well", i |-> idx, qd |-> nq, w |-> 0]
          ELSE [pc |-> "head", i |-> idx + 1, qd |-> 0, w |-> 0]

\* AfterHead without the test of the stop flag.
AfterHeadNoStop(tps, designated, idx, stop) ==
  IF ~TPBool(tps[idx]) THEN [pc |-> "head", i |-> idx + 1, qd |-> 0, w |-> 0]
  ELSE LET nq == NextQuad(tps[idx], tps[idx + 1], designated, 0)
       IN IF nq < 4 THEN [pc |-> "well", i |-> idx, qd |-> nq, w |-> 0]
          ELSE [pc |-> "head", i |-> idx + 1, qd |-> 0, w |-> 0]

\* The position of the worker after the head of the loop for the pair of
\* timepoints idx: "if self._parent.stop_thread: return", then
\* "if not prev: continue", then the loop over the quadrants up to the first
\* pair processed.
AfterHead(tps, designated, idx, stop) ==
  IF stop THEN [pc |-> "returned", i |-> idx, qd |-> 0, w |-> 0]
  ELSE IF ~TPBool(tps[idx]) THEN [pc |-> "head", i |-> idx + 1, qd |-> 0, w |-> 0]
  ELSE LET nq == NextQuad(tps[idx], tps[idx + 1], designated, 0)
       IN IF nq < 4 THEN [pc |-> "well", i |-> idx, qd |-> nq, w |-> 0]
          ELSE [pc |-> "head", i |-> idx + 1, qd |-> 0, w |-> 0]

\* The head of the loop over the pairs of timepoints: the progress signal is
\* emitted, then the stop flag is read.
LoopHead ==
  /\ pc = "head"
  /\ i < NbTimepoints - 1
  /\ signals' = Append(signals, [sig |-> "track_progress",
                                 val |-> Progress(i, NbTimepoints - 1)])
  /\ Goto(AfterHead(timepoints, quadrant, i, stop_thread))
  /\ UNCHANGED <<probe, shown, lost,
                 timepoints, imgseq, quadrant, min_radius, max_radius,
                 stop_thread, time_idx, selected, calls, start, manualOps>>

\* The loop is exhausted: processing_done is emitted and run returns.
Finish ==
  /\ pc = "head"
  /\ i >= NbTimepoints - 1
  /\ signals' = Append(signals, [sig |-> "processing_done", val |-> 0])
  /\ Goto([pc |-> "done", i |-> i, qd |-> 0, w |-> 0])
  /\ UNCHANGED <<probe, shown, lost,
                 timepoints, imgseq, quadrant, min_radius, max_radius,
                 stop_thread, time_idx, selected, calls, start,
                 manualOps>>

\* The two is_defined tests on a pair of wells; when they pass, the index of
\* time_combo is set to i + 1 (time_combo.setCurrentIndex(i + 1)) and the
\* first post of the well is selected.  handled tells whether the main
\* thread has reloaded the image of the scene when setCurrentIndex returns.
CheckWellWith(handled) ==
  /\ pc = "well"
  /\ LET prev_well == WellAt(timepoints, i, qd, w)
         current_well == WellAt(timepoints, i + 1, qd, w)
     IN IF WellProcessed(prev_well, current_well)
        THEN /\ time_idx' = i + 1
             /\ shown' = IF handled THEN i + 1 ELSE shown
             /\ selected' = 2 * current_well.id
             /\ Goto([pc |-> "track1", i |-> i, qd |-> qd, w |-> w])
        ELSE /\ Goto(AfterWell(timepoints, quadrant, i, qd, w))
             /\ UNCHANGED <<time_idx, shown, selected>>
  /\ UNCHANGED <<probe, lost, timepoints, imgseq, quadrant, min_radius,
                 max_radius, stop_thread, calls, signals, start, manualOps>>

\* The tests on a pair of wells, the image of timepoint i + 1 being loaded
\* in the scene before the worker goes on.
CheckWell == CheckWellWith(TRUE)

\* The tests on a pair of wells, the change of index being left for the main
\* thread to handle: the worker goes on with the image the scene holds.
CheckWellQueued == CheckWellWith(FALSE)

\* The tracking of the spot si of the current well: the call, the store on
\* success, and the selection of the next post.
TrackPost(si) ==
  \E seed \in {SpotAt(timepoints, i, qd, w, si)} :
  \E ret \in {TrackCall(SceneImg, seed, min_radius, max_radius)} :
  LET well_id == WellAt(timepoints, i + 1, qd, w).id
  IN /\ calls' = Append(calls, [t |-> i + 1, q |-> qd, w |-> w, s |-> si,
                                seed |-> seed,
                                cur |-> WellAt(timepoints, i + 1, qd, w),
                                img |-> <<shown, quadrant>>,
                                ret |-> ret])
     /\ timepoints' = StoreTracked(timepoints, i + 1, qd, w, si, ret)
     /\ signals' = IF ret.kind = "found"
                   THEN Append(signals, [sig |-> "post_detected_in_scene",
                                         val |-> ret.val[3]])
                   ELSE signals
     /\ IF ret.kind = "raise"
        THEN /\ Goto([pc |-> "raised", i |-> i, qd |-> qd, w |-> w])
             /\ UNCHANGED selected
        ELSE IF si = 0
        THEN /\ Goto([pc |-> "track2", i |-> i, qd |-> qd, w |-> w])
             /\ selected' = 2 * well_id + 1
        ELSE /\ Goto(AfterWell(timepoints', quadrant, i, qd, w))
             /\ selected' = IF ret.kind = "found"
                            THEN (2 * well_id + 2) % 4
                            ELSE selected
     /\ UNCHANGED <<probe, shown, lost,
                    imgseq, quadrant, min_radius, max_radius, stop_thread,
                    time_idx, start, manualOps>>

Track1 == pc = "track1" /\ TrackPost(0)

Track2 == pc = "track2" /\ TrackPost(1)

\* ------------------------------------------------------------ environment
\* The stop button of the main window sets the stop flag during a run.
RequestStop ==
  /\ Running
  /\ ~stop_thread
  /\ stop_thread' = TRUE
  /\ UNCHANGED <<probe, shown, lost,
                 timepoints, imgseq, quadrant, min_radius, max_radius,
                 time_idx, selected, pc, i, qd, w, calls, signals, start,
                 manualOps>>

\* The worker dies between the two spot writes of a well.
WorkerDies ==
  /\ pc = "track2"
  /\ pc' = "crashed"
  /\ UNCHANGED <<probe, shown, lost,
                 timepoints, imgseq, quadrant, min_radius, max_radius,
                 stop_thread, time_idx, selected, i, qd, w, calls, signals,
                 start, manualOps>>

\* ManualEnabled with the manual operations left enabled during a run.
ManualAlways == TRUE

\* Whether the interactive layer accepts manual detections, edits and
\* deletions: they are disabled while a driver run is active.
ManualEnabled == ~Running

\* The operator drags a rectangle on the image shown and releases the left
\* button: the detected spot is stored in the post selected, and the table
\* selects the next post (SinglePostFrame.update_text emits switch_next).
ManualDetect ==
  /\ ManualEnabled
  /\ shown = time_idx
  /\ manualOps < MaxManual
  /\ time_idx \in DOMAIN timepoints
  /\ \E kind \in RectKindsFor(selected) :
       LET new == LeftMouseRelease(timepoints, imgseq, time_idx, quadrant,
                                   selected,
                                   SelectRect(time_idx, selected, kind))
       IN /\ timepoints' = new
          /\ selected' = IF new # timepoints THEN (selected + 1) % 4
                         ELSE selected
  /\ manualOps' = manualOps + 1
  /\ lost' = LostAfterEdit(quadrant, selected \div 2)
  /\ start' = None
  /\ calls' = <<>>
  /\ UNCHANGED <<probe, shown,
                 imgseq, quadrant, min_radius, max_radius, stop_thread,
                 time_idx, pc, i, qd, w, signals>>

\* Well.__setitem__(index, value)
WellSetItem(well, index, value) ==
  IF index \in {-2, 0} THEN [well EXCEPT !.spot_1 = value]
  ELSE [well EXCEPT !.spot_2 = value]

\* The delete button of the post k of the quadrant shown: the spot is set
\* back to None.
ManualDelete ==
  /\ ManualEnabled
  /\ shown = time_idx
  /\ manualOps < MaxManual
  /\ time_idx \in DOMAIN timepoints
  /\ \E k \in 0..3 :
       /\ ~IsNone(SpotAt(timepoints, time_idx, quadrant, k \div 2, k % 2))
       /\ timepoints' =
            [timepoints EXCEPT
               ![time_idx][QuadField(quadrant)][WellField(k \div 2)] =
                  WellSetItem(@, k % 2, None)]
       /\ lost' = LostAfterEdit(quadrant, k \div 2)
  /\ manualOps' = manualOps + 1
  /\ start' = None
  /\ calls' = <<>>
  /\ UNCHANGED <<probe, shown,
                 imgseq, quadrant, min_radius, max_radius, stop_thread,
                 time_idx, selected, pc, i, qd, w, signals>>

\* The main thread handles the change of index of time_combo the worker
\* made: CustomScene.reload_image_in_scene opens the image of the timepoint
\* of that index.
ReloadImage ==
  /\ shown # time_idx
  /\ shown' = time_idx
  /\ UNCHANGED <<probe, lost, timepoints, imgseq, quadrant, min_radius,
                 max_radius, stop_thread, time_idx, selected, pc, i, qd, w,
                 calls, signals, start, manualOps>>

\* ---------------------------------------------------------- specification
DriverStep == LoopHead \/ Finish \/ CheckWell \/ Track1 \/ Track2

Next ==
  \/ StartRun
  \/ LoopHead
  \/ Finish
  \/ CheckWell
  \/ Track1
  \/ Track2
  \/ RequestStop
  \/ WorkerDies
  \/ ManualDetect
  \/ ManualDelete

Spec == Init /\ [][Next]_vars

\* The window and the worker, the worker running in a thread of its own: the
\* change of index it makes is handled by the main thread when it comes to
\* it.
NextDisplay ==
  \/ StartRun
  \/ LoopHead
  \/ Finish
  \/ CheckWellQueued
  \/ Track1
  \/ Track2
  \/ ReloadImage
  \/ RequestStop
  \/ WorkerDies
  \/ ManualDetect
  \/ ManualDelete

SpecDisplay == Init /\ [][NextDisplay]_vars

\* The runs of the worker on the timepoints as loaded and seeded, the thread
\* of the worker being scheduled as long as run has a step to take.
NextRun ==
  \/ StartRun
  \/ LoopHead
  \/ Finish
  \/ CheckWell
  \/ Track1
  \/ Track2
  \/ RequestStop

SpecRun == Init /\ [][NextRun]_vars /\ WF_vars(DriverStep)

\* The number of timepoints of a long acquisition.
LongRun == 1002

\* A long acquisition, loaded and left unseeded.
InitLong ==
  /\ timepoints = [t \in 0..(LongRun - 1) |-> NewTimePoint(t)]
  /\ imgseq = "steady"
  /\ quadrant = 0
  /\ min_radius = NoneInt
  /\ max_radius = NoneInt
  /\ stop_thread = FALSE
  /\ time_idx = 0
  /\ selected = 0
  /\ pc = "idle"
  /\ i = 0
  /\ qd = 0
  /\ w = 0
  /\ calls = <<>>
  /\ signals = <<>>
  /\ start = None
  /\ manualOps = MaxManual
  /\ shown = 0
  /\ lost = {}
  /\ probe = NoCall

\* The window and the worker, on the timepoints as loaded and seeded or on
\* a long acquisition.
SpecSignals == (Init \/ InitLong) /\ [][Next]_vars

\* ------------------------------------------------------------ observations
\* The indices of the logged calls made for the well wi of timepoint t.
CallsFor(t, wi) == {k \in 1..Len(calls) : calls[k].t = t /\ calls[k].w = wi}

\* A run has returned normally and no manual operation was done since.
RunCompleted == pc = "done" /\ ~IsNone(start)

\* The Spot value a logged call returned, as stored in its slot.
Returned(c) ==
  Some(Spot(c.ret.val[1], c.ret.val[2], c.ret.val[3],
            Slot(c.t, c.q, c.w, c.s)))

\* Whether the well a logged call is about was defined when the worker
\* tested it (the first call of a well logs the well as tested).
DefinedWhenTested(t, wi) ==
  IF CallsFor(t, wi) = {}
  THEN IsDefined(WellAt(timepoints, t, quadrant, wi))
  ELSE \E k \in CallsFor(t, wi) : calls[k].s = 0 /\ IsDefined(calls[k].cur)

\* ----------------------------------------------------- uninterrupted run
\* The two track-and-store steps of run on the well wi of the quadrant pair
\* q of the pair of timepoints (t - 1, t), when the well is processed.
RunWell(tps, t, q, wi) ==
  IF WellProcessed(WellAt(tps, t - 1, q, wi), WellAt(tps, t, q, wi))
  THEN LET image == ImageOf(imgseq, <<t, quadrant>>)
           first == StoreTracked(tps, t, q, wi, 0,
                                 TrackCall(image, SpotAt(tps, t - 1, q, wi, 0),
                                           min_radius, max_radius))
       IN StoreTracked(first, t, q, wi, 1,
                       TrackCall(image, SpotAt(first, t - 1, q, wi, 1),
                                 min_radius, max_radius))
  ELSE tps

\* One iteration of the loop of run over the pairs of timepoints, for the
\* pair (t - 1, t), the stop flag being clear.
RunPair(tps, t) ==
  LET pos == AfterHead(tps, quadrant, t - 1, FALSE)
  IN IF pos.pc = "well"
     THEN RunWell(RunWell(tps, t, pos.qd, 0), t, pos.qd, 1)
     ELSE tps

RECURSIVE RunFrom(_, _)
\* The iterations of run from the pair (t - 1, t) on.
RunFrom(tps, t) ==
  IF t > Cardinality(DOMAIN tps) - 1 THEN tps
  ELSE RunFrom(RunPair(tps, t), t + 1)

\* The timepoints one uninterrupted run of the worker leaves.
RunAll(tps) == RunFrom(tps, 1)

\* ---------------------------------------------------------------- claims
\* C1: in a run that is not cancelled, for every pair of timepoints (t-1, t)
\* and every well of the designated quadrant, the driver calls the tracking
\* engine for the well at t exactly when the well is defined at t-1 and was
\* not defined at t; it makes at most one call per spot, seeded with the
\* spot of t-1 in the same position, and a returned Spot is stored in that
\* position of the well of t.
C1_TransitionRule ==
  RunCompleted =>
    /\ \A k \in 1..Len(calls) : calls[k].q = quadrant
    /\ \A t \in 1..(NbTimepoints - 1), wi \in 0..1 :
         LET ks == CallsFor(t, wi)
             prev_well == WellAt(timepoints, t - 1, quadrant, wi)
         IN /\ (ks # {}) <=> (IsDefined(prev_well) /\ ~DefinedWhenTested(t, wi))
            /\ ks # {} =>
                 \A si \in 0..1 :
                   /\ Cardinality({k \in ks : calls[k].s = si}) <= 1
                   /\ \A k \in ks :
                        calls[k].s = si =>
                          /\ calls[k].seed = SpotAt(timepoints, t - 1,
                                                    quadrant, wi, si)
                          /\ calls[k].ret.kind = "found" =>
                               SpotAt(timepoints, t, quadrant, wi, si)
                                 = Returned(calls[k])

\* C1 witness: a completed run tracked a well into timepoint 2 from the spot
\* the driver itself had written into timepoint 1.
C1_Witness ==
  /\ RunCompleted
  /\ \E k \in 1..Len(calls) :
       /\ calls[k].t = 2
       /\ calls[k].ret.kind = "found"
       /\ \E j \in 1..Len(calls) :
            /\ calls[j].t = 1 /\ calls[j].w = calls[k].w
            /\ calls[j].s = calls[k].s
            /\ calls[j].ret.kind = "found"
            /\ calls[k].seed = Returned(calls[j])

\* C2: LOST is terminal.  When a track_spot call of the run returned None
\* for a spot of well w at timepoint t, that spot is undefined at t and the
\* run makes no track_spot call for well w at a timepoint later than t.
C2_LostIsTerminal ==
  \A k \in 1..Len(calls) :
    calls[k].ret.kind = "none" =>
      /\ IsNone(SpotAt(timepoints, calls[k].t, quadrant, calls[k].w,
                       calls[k].s))
      /\ \A j \in 1..Len(calls) :
           calls[j].w = calls[k].w => calls[j].t <= calls[k].t

\* C3: the wells are independent and a failure stops nothing.  A run only
\* returns early on the stop flag, a call that returned None leaves the
\* worker running, and in a completed run in which a call for one well
\* returned None at timepoint t, the other well was handled at every
\* timepoint from t on: wherever its predecessor is defined it is defined or
\* one of its own calls returned None.
C3_WellsIndependent ==
  /\ pc = "returned" => stop_thread
  /\ pc = "raised" => calls[Len(calls)].ret.kind = "raise"
  /\ RunCompleted =>
       \A k \in 1..Len(calls) :
         calls[k].ret.kind = "none" =>
           LET u == 1 - calls[k].w
           IN \A t \in calls[k].t..(NbTimepoints - 1) :
                IsDefined(WellAt(timepoints, t - 1, quadrant, u)) =>
                  \/ IsDefined(WellAt(timepoints, t, quadrant, u))
                  \/ \E j \in CallsFor(t, u) : calls[j].ret.kind = "none"

\* C3 witness: a completed run lost the left well at timepoint 1 and
\* tracked the right well into timepoints 1 and 2.
C3_Witness ==
  /\ RunCompleted
  /\ \E k \in 1..Len(calls) :
       calls[k].t = 1 /\ calls[k].w = 0 /\ calls[k].ret.kind = "none"
  /\ ~IsDefined(WellAt(timepoints, 1, quadrant, 0))
  /\ \A t \in 1..2, si \in 0..1 :
       \E j \in CallsFor(t, 1) :
         calls[j].s = si /\ calls[j].ret.kind = "found"

\* C4: the driver only tracks spots that are not resolved yet.  Every
\* track_spot call of the run is made for a slot that held None when the
\* call was made, so that no spot already present is re-tracked or
\* overwritten.
C4_OnlyUnresolvedTracked ==
  \A k \in 1..Len(calls) : IsNone(calls[k].cur[SpotField(calls[k].s)])

\* C5: unseeded timepoints are skipped, not errors.  At the head of the loop
\* with the stop flag clear, a pair of timepoints whose predecessor has no
\* defined well in the designated quadrant is passed over: the worker goes
\* to the next pair without a call or a write.  No call raises; in a
\* completed run a timepoint whose predecessor has no defined well of the
\* designated quadrant got no call and is as it was, and a well whose
\* predecessor is defined, wherever the operator seeded it, is defined or
\* was tracked.
C5_UnseededSkipped ==
  /\ [](/\ pc # "raised"
        /\ RunCompleted =>
             \A t \in 1..(NbTimepoints - 1) :
               IF ~QuadBool(timepoints[t - 1][QuadField(quadrant)])
               THEN /\ \A k \in 1..Len(calls) : calls[k].t # t
                    /\ timepoints[t] = Val(start)[t]
               ELSE \A wi \in 0..1 :
                      IsDefined(WellAt(timepoints, t - 1, quadrant, wi)) =>
                        \/ IsDefined(WellAt(timepoints, t, quadrant, wi))
                        \/ CallsFor(t, wi) # {})
  /\ [][(/\ LoopHead
         /\ ~stop_thread
         /\ ~QuadBool(timepoints[i][QuadField(quadrant)]))
        => (pc' = "head" /\ i' = i + 1 /\ UNCHANGED <<timepoints, calls>>)]_vars

\* C5 witness: the first timepoint holds no spot at all, and a completed run
\* tracked a well into timepoint 2 from the wells seeded at timepoint 1.
C5_Witness ==
  /\ RunCompleted
  /\ NbTimepoints = 3
  /\ ~TPBool(timepoints[0])
  /\ \E k \in 1..Len(calls) : calls[k].t = 2 /\ calls[k].ret.kind = "found"

\* C6: cancellation safety.  The stop flag is read at the head of the loop
\* only: read as set, the worker returns without a call or a write, and the
\* worker never returns from the middle of a timepoint.  After the return
\* no call is logged and only a manual operation changes the timepoints, and
\* every Spot a call of the run returned is still in its slot.
C6_CancellationSafe ==
  /\ [](pc = "returned" =>
          /\ stop_thread
          /\ \A k \in 1..Len(calls) :
               calls[k].ret.kind = "found" =>
                 SpotAt(timepoints, calls[k].t, quadrant, calls[k].w,
                        calls[k].s) = Returned(calls[k]))
  /\ [][(LoopHead /\ stop_thread)
        => (pc' = "returned" /\ UNCHANGED <<timepoints, calls>>)]_vars
  /\ [][(pc \in {"well", "track1", "track2"}) => (pc' # "returned")]_vars
  /\ [][pc = "returned" =>
          /\ calls' = calls \/ calls' = <<>>
          /\ timepoints' # timepoints => manualOps' = manualOps + 1]_vars

\* C6 witness: the worker returned on the stop flag with timepoints left to
\* process, after a call of the run had stored a Spot.
C6_Witness ==
  /\ pc = "returned"
  /\ i < NbTimepoints - 1
  /\ \E k \in 1..Len(calls) : calls[k].ret.kind = "found"

\* C7: the driver is idempotent and re-runnable.  Whenever a run completes,
\* whatever runs were completed, stopped by the flag or ended by a crash
\* between the two writes of a well since the timepoints were last edited by
\* hand, the timepoints are those one uninterrupted run leaves from the
\* timepoints as they stood before the first of these runs.
C7_Rerunnable ==
  RunCompleted => timepoints = RunAll(Val(start))

\* C8: one designated camera, forward in time.  Since the timepoints were
\* last edited by hand, the runs of the driver changed a spot only in the
\* designated quadrant, in a timepoint of index >= 1 and in a well that was
\* not defined, and no spot that was present became None.
C8_FrameOfRun ==
  ~IsNone(start) =>
    \A t \in DOMAIN timepoints, q \in 0..3, wi \in 0..1 :
      LET before == WellAt(Val(start), t, q, wi)
          now == WellAt(timepoints, t, q, wi)
      IN /\ now # before => (q = quadrant /\ t >= 1 /\ ~IsDefined(before))
         /\ ~IsNone(before.spot_1) => ~IsNone(now.spot_1)
         /\ ~IsNone(before.spot_2) => ~IsNone(now.spot_2)

\* C8 witness: a completed run tracked a well of the designated quadrant
\* while another quadrant held a defined well at timepoint 0 whose successor
\* is still undefined.
C8_Witness ==
  /\ RunCompleted
  /\ \E k \in 1..Len(calls) : calls[k].ret.kind = "found"
  /\ NbTimepoints >= 2
  /\ \E q \in 0..3 :
       /\ q # quadrant
       /\ IsDefined(WellAt(timepoints, 0, q, 0))
       /\ ~IsDefined(WellAt(timepoints, 1, q, 0))

\* C9: the two writers never interleave.  While a run is active no manual
\* operation is done, and the timepoints change only by the store of the
\* Spot a track_spot call returned, seeded with the spot of the previous
\* timepoint as it stands; between the is_defined tests on a pair of wells
\* and the two calls the seed well stays defined, and no call raises.
C9_WritersSerialized ==
  /\ [](/\ pc \in {"track1", "track2"} =>
             IsDefined(WellAt(timepoints, i, qd, w))
        /\ pc # "raised")
  /\ [][Running =>
          /\ manualOps' = manualOps
          /\ timepoints' # timepoints =>
               /\ Len(calls') = Len(calls) + 1
               /\ LET c == calls'[Len(calls')]
                  IN /\ c.ret.kind = "found"
                     /\ c.seed = SpotAt(timepoints, c.t - 1, c.q, c.w, c.s)
                     /\ ~IsNone(c.seed)
                     /\ timepoints' = SetSpot(timepoints, c.t, c.q, c.w, c.s,
                                              Returned(c))]_vars

\* C9 witness: the worker stands between the two writes of a well, the
\* timepoint shown is the one it writes, a spot of that well could be
\* deleted by hand and the operator has a manual operation left.
C9_Witness ==
  /\ pc = "track2"
  /\ time_idx = i + 1
  /\ manualOps < MaxManual
  /\ ~IsNone(SpotAt(timepoints, time_idx, quadrant, w, 0))

\* C10: Spots are never shared across timepoints.  Every Spot object held
\* by a well of timepoint t was constructed for a slot of timepoint t, so
\* that no Spot object is held by wells of two different timepoints, and a
\* track_spot call leaves the timepoint of its seed, the seed Spot included,
\* as it was.
C10_SpotsNotShared ==
  /\ [](\A t \in DOMAIN timepoints :
          \A quad \in {timepoints[t].A, timepoints[t].B,
                        timepoints[t].C, timepoints[t].D} :
            \A well \in {quad.well_1, quad.well_2} :
              \A held \in {well.spot_1, well.spot_2} :
                ~IsNone(held) => Val(held).obj[1] = t)
  /\ [][Len(calls') = Len(calls) + 1 =>
          LET c == calls'[Len(calls')]
          IN /\ timepoints'[c.t - 1] = timepoints[c.t - 1]
             /\ SpotAt(timepoints', c.t - 1, c.q, c.w, c.s) = c.seed]_vars

\* C10 witness: after a manual operation, a completed run tracked a spot
\* into timepoint 2 from a Spot a call of the run had created in
\* timepoint 1, and both Spots are in their slots.
C10_Witness ==
  /\ RunCompleted
  /\ manualOps >= 1
  /\ \E k \in 1..Len(calls) :
       /\ calls[k].t = 2
       /\ calls[k].ret.kind = "found"
       /\ ~IsNone(calls[k].seed)
       /\ Val(calls[k].seed).obj = Slot(1, calls[k].q, calls[k].w, calls[k].s)
       /\ SpotAt(timepoints, 2, calls[k].q, calls[k].w, calls[k].s)
            = Returned(calls[k])
       /\ SpotAt(timepoints, 1, calls[k].q, calls[k].w, calls[k].s)
            = calls[k].seed

\* ===================================================== calls of the engines
\* detect_spot and track_spot called on their own: the arguments are drawn
\* when the call is made (fn, the arguments and ret pending), and the call
\* then returns or raises.
MaxCell == 5
MaxMarker == 9

Pending == [kind |-> "pending", val |-> <<>>]

\* The coordinates the corners of a selection box and the centre of a prior
\* spot are drawn from.
Grid == {12 * k : k \in 0..MaxCell}

\* The images of the calls: the second images of the sequences, images of
\* one dark marker of centre (40, 50) on a uniform background, and an image
\* of one dark blob made of two discs that overlap, of centres (24, 24) and
\* (58, 58).
TwoLobes == Image({Circle(24, 24, 24), Circle(58, 58, 25)})
ProbeImages ==
  {ImageOf(seq, <<1, 0>>) : seq \in ImageSeqs}
    \cup {Image({Circle(40, 50, r)}) : r \in 6..MaxMarker}
    \cup {TwoLobes}

\* The values of the optional limits <<min_radius, max_radius>>.
RadiusLimits == {<<NoneInt, NoneInt>>, <<7, NoneInt>>, <<NoneInt, 7>>}

\* The prior spots: their radius is 7 to 10 pixels, or 20 pixels for the
\* spots of the diagonal.
PriorSpots ==
  {Spot(x, y, r, <<>>) : x \in Grid, y \in Grid, r \in 7..10}
    \cup {Spot(x, x, 20, <<>>) : x \in Grid}

Margins == {4, Offset}

DetectSpotCalls ==
  {[fn |-> "detect_spot", image |-> im, y_1 |-> c[1], x_1 |-> c[2],
    y_2 |-> c[3], x_2 |-> c[4], min_radius |-> lim[1],
    max_radius |-> lim[2], ret |-> Pending] :
     im \in ProbeImages, c \in Grid \X Grid \X Grid \X Grid,
     lim \in RadiusLimits}

TrackSpotCalls ==
  {[fn |-> "track_spot", image |-> im, spot |-> sp, offset |-> m,
    min_radius |-> lim[1], max_radius |-> lim[2], ret |-> Pending] :
     im \in ProbeImages, sp \in PriorSpots, m \in Margins,
     lim \in RadiusLimits}

\* No image is loaded and the worker is idle while the engines are called
\* on their own.
WindowIdle ==
  /\ timepoints = <<>>
  /\ imgseq = "steady"
  /\ quadrant = 0
  /\ min_radius = NoneInt
  /\ max_radius = NoneInt
  /\ stop_thread = FALSE
  /\ time_idx = 0
  /\ selected = 0
  /\ pc = "idle"
  /\ i = 0
  /\ qd = 0
  /\ w = 0
  /\ calls = <<>>
  /\ signals = <<>>
  /\ start = None
  /\ manualOps = 0
  /\ shown = 0
  /\ lost = {}

InitEngines ==
  /\ WindowIdle
  /\ probe \in DetectSpotCalls \cup TrackSpotCalls

\* detect_spot(image, y_1, x_1, y_2, x_2, min_radius, max_radius)
DetectSpotCall ==
  /\ probe.fn = "detect_spot"
  /\ probe.ret = Pending
  /\ probe' = [probe EXCEPT !.ret =
                 DetectSpot(probe.image, probe.y_1, probe.x_1, probe.y_2,
                            probe.x_2, probe.min_radius, probe.max_radius)]
  /\ UNCHANGED windowVars

\* track_spot writing the Spot it found into the prior Spot it was handed.
TrackSpotCallInPlace ==
  /\ probe.fn = "track_spot"
  /\ probe.ret = Pending
  /\ LET ret == TrackSpot(probe.image, probe.spot, probe.offset,
                          probe.min_radius, probe.max_radius)
     IN probe' = [probe EXCEPT
                    !.ret = ret,
                    !.spot = IF ret.kind = "found"
                             THEN Spot(ret.val[1], ret.val[2], ret.val[3],
                                       <<>>)
                             ELSE @]
  /\ UNCHANGED windowVars

\* track_spot(image, spot, offset, min_radius, max_radius)
TrackSpotCall ==
  /\ probe.fn = "track_spot"
  /\ probe.ret = Pending
  /\ probe' = [probe EXCEPT !.ret =
                 TrackSpot(probe.image, probe.spot, probe.offset,
                           probe.min_radius, probe.max_radius)]
  /\ UNCHANGED windowVars

NextEngines == DetectSpotCall \/ TrackSpotCall

SpecEngines == InitEngines /\ [][NextEngines]_vars

\* The engines called on their own, and the window and the worker calling
\* them on the images loaded.
NextFits == (probe = NoCall /\ Next) \/ NextEngines

SpecFits == (Init \/ InitEngines) /\ [][NextFits]_vars

\* The rows and the columns of the selection box of a detect_spot call:
\* x_1 and x_2 index the rows of the image, y_1 and y_2 its columns.
BoxRows(c) == <<Min2(c.x_1, c.x_2), Max2(c.x_1, c.x_2)>>
BoxCols(c) == <<Min2(c.y_1, c.y_2), Max2(c.y_1, c.y_2)>>

\* The square of a track_spot call, as <<first, one past the last>>.
SquareRows(c) == <<c.spot.y - c.spot.radius - c.offset,
                   c.spot.y + c.spot.radius + c.offset>>
SquareCols(c) == <<c.spot.x - c.spot.radius - c.offset,
                   c.spot.x + c.spot.radius + c.offset>>

Abs(v) == IF v < 0 THEN -v ELSE v

\* --------------------------------------------------------------- claim C11
\* C11 (as stated): whenever detect_spot finds a circle, the Spot returned
\* has for x the first column of the selection box plus the column offset
\* of the circle in the subframe and for y the first row of the box plus
\* its row offset, with the fitted radius; so the Spot is the circle of
\* the image that was fitted, its centre lies inside the selection box
\* whatever the shape of the box, and x is a column and y a row as
\* track_spot reads them.
C11_SameAxisTranslation ==
  (probe.fn = "detect_spot" /\ probe.ret.kind = "found") =>
    LET v == probe.ret.val
        rows == BoxRows(probe)
        cols == BoxCols(probe)
    IN /\ cols[1] <= v[1] /\ v[1] < cols[2]
       /\ rows[1] <= v[2] /\ v[2] < rows[2]
       /\ \E c \in probe.image.circles : v = <<c.cx, c.cy, c.r>>

\* --------------------------------------------------------------- claim C12
\* C12: whenever track_spot finds a circle, it is a circle of the image
\* whose centre lies in the square of side 2 * (radius + offset) centred on
\* the prior spot, and the Spot returned holds its centre in the
\* coordinates of the image (the centre in the subframe translated by the
\* top-left corner of the square) and its radius; so the new centre is at
\* most radius + offset away from the prior centre along each axis.
C12_TrackTranslation ==
  (probe.fn = "track_spot" /\ probe.ret.kind = "found") =>
    LET v == probe.ret.val
        rows == SquareRows(probe)
        cols == SquareCols(probe)
        reach == probe.spot.radius + probe.offset
    IN /\ rows[2] - rows[1] = 2 * reach
       /\ cols[2] - cols[1] = 2 * reach
       /\ rows[1] + reach = probe.spot.y
       /\ cols[1] + reach = probe.spot.x
       /\ \E c \in probe.image.circles :
            /\ v = <<c.cx, c.cy, c.r>>
            /\ cols[1] <= c.cx /\ c.cx < cols[2]
            /\ rows[1] <= c.cy /\ c.cy < rows[2]
       /\ Abs(v[1] - probe.spot.x) <= reach
       /\ Abs(v[2] - probe.spot.y) <= reach

\* C12 witness: a track_spot call found a circle whose centre is off the
\* prior centre along both axes.
C12_Witness ==
  /\ probe.fn = "track_spot"
  /\ probe.ret.kind = "found"
  /\ probe.ret.val[1] # probe.spot.x
  /\ probe.ret.val[2] # probe.spot.y

\* --------------------------------------------------------------- claim C13
\* C13 (as stated): the radius r of every Spot track_spot returns lies
\* within a quarter of the radius of the prior spot,
\* 0.75 * radius <= r <= 1.25 * radius.
C13_RadiusWithinQuarter ==
  (probe.fn = "track_spot" /\ probe.ret.kind = "found") =>
    /\ 3 * probe.spot.radius <= 4 * probe.ret.val[3]
    /\ 4 * probe.ret.val[3] <= 5 * probe.spot.radius

\* --------------------------------------------------------------- claim C14
\* C14 (as stated): no track_spot call on a prior spot that has a radius
\* raises: each returns a Spot or None, wherever the prior spot lies in the
\* image.
C14_TrackNeverRaises ==
  (probe.fn = "track_spot" /\ probe.spot.radius # NoneInt) =>
    probe.ret.kind # "raise"

\* --------------------------------------------------------------- claim C15
\* C15: every detect_spot call on a selection box of zero width or zero
\* height, its corners given in either order, returns None: it does not
\* raise, and the outcome is the one of the same call on any other image
\* and with any other radius limits, the image not being read.
C15_EmptyBoxNotFound ==
  (/\ probe.fn = "detect_spot"
   /\ probe.ret # Pending
   /\ (probe.x_1 = probe.x_2 \/ probe.y_1 = probe.y_2)) =>
    /\ probe.ret = NotFound
    /\ \A im \in ProbeImages, lim \in RadiusLimits :
         DetectSpot(im, probe.y_1, probe.x_1, probe.y_2, probe.x_2,
                    lim[1], lim[2]) = probe.ret

\* C15 witness: a detect_spot call returned on a box of zero height whose
\* columns, given from right to left, span the marker.
C15_Witness ==
  /\ probe.fn = "detect_spot"
  /\ probe.ret # Pending
  /\ probe.x_1 = probe.x_2
  /\ probe.y_2 < 40 /\ 40 < probe.y_1

\* --------------------------------------------------------------- claim C16
\* C16: the outcome of a detect_spot call is the outcome of the call with
\* the two corners exchanged on the rows, on the columns, or on both.
C16_CornerOrderInvariant ==
  (probe.fn = "detect_spot" /\ probe.ret # Pending) =>
    /\ DetectSpot(probe.image, probe.y_2, probe.x_1, probe.y_1, probe.x_2,
                  probe.min_radius, probe.max_radius) = probe.ret
    /\ DetectSpot(probe.image, probe.y_1, probe.x_2, probe.y_2, probe.x_1,
                  probe.min_radius, probe.max_radius) = probe.ret
    /\ DetectSpot(probe.image, probe.y_2, probe.x_2, probe.y_1, probe.x_1,
                  probe.min_radius, probe.max_radius) = probe.ret

\* C16 witness: a detect_spot call whose second corner is above and left of
\* the first found a circle.
C16_Witness ==
  /\ probe.fn = "detect_spot"
  /\ probe.ret.kind = "found"
  /\ probe.y_2 < probe.y_1
  /\ probe.x_2 < probe.x_1

\* ============================================= file names and parse_paths
\* A file name (Path.name) is the sequence of its characters.
DigitChars == <<"0", "1", "2", "3", "4", "5", "6", "7", "8", "9">>
IsDigit(ch) == \E d \in 1..10 : DigitChars[d] = ch
DigitVal(ch) == (CHOOSE d \in 1..10 : DigitChars[d] = ch) - 1

\* str(n) for a natural number n.
RECURSIVE Digits(_)
Digits(n) ==
  IF n < 10 THEN <<DigitChars[n + 1]>>
  ELSE Digits(n \div 10) \o <<DigitChars[(n % 10) + 1]>>

\* int(s) for a non-empty sequence of digits s.
RECURSIVE IntOf(_)
IntOf(s) ==
  IF Len(s) = 1 THEN DigitVal(s[1])
  ELSE 10 * IntOf(SubSeq(s, 1, Len(s) - 1)) + DigitVal(s[Len(s)])

Png == <<".", "p", "n", "g">>
Jpg == <<".", "j", "p", "g">>

\* The name the acquisition gives the image taken at the moment
\* <<year, month, day, hour, minute, second>> by the camera cam.
ImageName(moment, cam, ext) ==
  Digits(moment[1]) \o <<"_">> \o Digits(moment[2]) \o <<"_">>
    \o Digits(moment[3]) \o <<"_">> \o Digits(moment[4]) \o <<"_">>
    \o Digits(moment[5]) \o <<"_">> \o Digits(moment[6]) \o <<"_">>
    \o Digits(cam) \o ext

\* name.endswith(suffix)
EndsWith(name, suffix) ==
  /\ Len(suffix) <= Len(name)
  /\ SubSeq(name, Len(name) - Len(suffix) + 1, Len(name)) = suffix

\* The pieces of a name between its underscores.
RECURSIVE Split(_)
Split(name) ==
  IF \A k \in 1..Len(name) : name[k] # "_" THEN <<name>>
  ELSE LET k == CHOOSE j \in 1..Len(name) :
                  /\ name[j] = "_"
                  /\ \A l \in 1..(j - 1) : name[l] # "_"
       IN <<SubSeq(name, 1, k - 1)>>
            \o Split(SubSeq(name, k + 1, Len(name)))

\* fullmatch(r'(\d+)_(\d+)_(\d+)_(\d+)_(\d+)_(\d+)_[0123]\.(?:jpg|png)', name):
\* the six groups, or None.
FullMatch(name) ==
  LET parts == Split(name)
      IsNumber(s) == Len(s) >= 1 /\ \A k \in 1..Len(s) : IsDigit(s[k])
  IN IF /\ Len(parts) = 7
        /\ \A k \in 1..6 : IsNumber(parts[k])
        /\ Len(parts[7]) = 5
        /\ parts[7][1] \in {"0", "1", "2", "3"}
        /\ SubSeq(parts[7], 2, 5) \in {Jpg, Png}
     THEN Some(SubSeq(parts, 1, 6))
     ELSE None

\* An exception of the class exc leaving a call.
RaisedWith(exc) == [kind |-> "raise", val |-> <<exc>>]

\* calendar.timegm(<<year, month, day, hour, minute, second>>): the ordinal
\* of the first day of the month is taken from datetime.date, which
\* refuses a month outside 1..12 and a year outside 1..9999; the day, the
\* hour, the minute and the second are not tested.
IsLeap(year) == year % 4 = 0 /\ (year % 100 # 0 \/ year % 400 = 0)
DaysInMonth(year, month) ==
  IF month = 2 THEN (IF IsLeap(year) THEN 29 ELSE 28)
  ELSE IF month \in {4, 6, 9, 11} THEN 30 ELSE 31
RECURSIVE DaysBeforeMonth(_, _)
DaysBeforeMonth(year, month) ==
  IF month = 1 THEN 0
  ELSE DaysBeforeMonth(year, month - 1) + DaysInMonth(year, month - 1)
DaysBeforeYear(year) ==
  LET y == year - 1 IN y * 365 + y \div 4 - y \div 100 + y \div 400
Ordinal(year, month, day) ==
  DaysBeforeYear(year) + DaysBeforeMonth(year, month) + day
TimeGm(m) ==
  IF m[1] \notin 1..9999 \/ m[2] \notin 1..12 THEN RaisedWith("ValueError")
  ELSE LET days == Ordinal(m[1], m[2], 1) - Ordinal(1970, 1, 1) + m[3] - 1
       IN Found(((days * 24 + m[4]) * 60 + m[5]) * 60 + m[6])

\* path_to_time(path)
PathToTime(path) ==
  LET groups == FullMatch(path)
  IN IF IsNone(groups) THEN RaisedWith("AttributeError")
     ELSE TimeGm([k \in 1..6 |-> IntOf(Val(groups)[k])])

\* Quadrant(path, acq_time, id) with its acquisition time.
TimedQuadrant(path, acq_time, id) ==
  [path |-> path, acq_time |-> acq_time, id |-> id,
   well_1 |-> Well(0), well_2 |-> Well(1)]

\* The index of the slot (1 for path_a .. 4 for path_d) the loop of
\* parse_paths puts a path in, 0 if it puts it in none.
SlotOf(path) ==
  IF EndsWith(path, <<"0">> \o Png) \/ EndsWith(path, <<"0">> \o Jpg) THEN 1
  ELSE IF EndsWith(path, <<"1">> \o Png) \/ EndsWith(path, <<"1">> \o Jpg)
  THEN 2
  ELSE IF EndsWith(path, <<"2">> \o Png) \/ EndsWith(path, <<"2">> \o Jpg)
  THEN 3
  ELSE IF EndsWith(path, <<"3">> \o Png) \/ EndsWith(path, <<"3">> \o Jpg)
  THEN 4
  ELSE 0

\* The slots <<path_a, path_b, path_c, path_d>> after the loop of parse_paths
\* went over the paths from the k-th on.
RECURSIVE Associate(_, _, _)
Associate(paths, k, slots) ==
  IF k > Len(paths) THEN slots
  ELSE LET s == SlotOf(paths[k])
       IN Associate(paths, k + 1,
                    IF s = 0 THEN slots
                    ELSE [slots EXCEPT ![s] = Some(paths[k])])

\* parse_paths taking the paths for those of the cameras 0, 1, 2, 3 in the
\* order they are given in.
ParsePathsInOrder(path_1, path_2, path_3, path_4) ==
  LET slots == <<Some(path_1), Some(path_2), Some(path_3), Some(path_4)>>
      time == [k \in 1..4 |-> PathToTime(Val(slots[k]))]
  IN IF \E k \in 1..4 : SlotOf(Val(slots[k])) = 0
     THEN RaisedWith("FileNotFoundError")
     ELSE IF \E k \in 1..4 : time[k].kind = "raise"
     THEN time[CHOOSE k \in 1..4 :
                 /\ time[k].kind = "raise"
                 /\ \A l \in 1..(k - 1) : time[l].kind # "raise"]
     ELSE Found([A |-> TimedQuadrant(Val(slots[1]), time[1].val, 0),
                 B |-> TimedQuadrant(Val(slots[2]), time[2].val, 1),
                 C |-> TimedQuadrant(Val(slots[3]), time[3].val, 2),
                 D |-> TimedQuadrant(Val(slots[4]), time[4].val, 3)])

\* parse_paths giving the time 0 to a path path_to_time cannot parse.
ParsePathsLenient(path_1, path_2, path_3, path_4) ==
  LET slots == Associate(<<path_1, path_2, path_3, path_4>>, 1,
                         <<None, None, None, None>>)
      time == [k \in 1..4 |->
                 IF PathToTime(Val(slots[k])) = RaisedWith("AttributeError")
                 THEN Found(0) ELSE PathToTime(Val(slots[k]))]
  IN IF \E k \in 1..4 : IsNone(slots[k])
     THEN RaisedWith("FileNotFoundError")
     ELSE IF \E k \in 1..4 : time[k].kind = "raise"
     THEN time[CHOOSE k \in 1..4 :
                 /\ time[k].kind = "raise"
                 /\ \A l \in 1..(k - 1) : time[l].kind # "raise"]
     ELSE Found([A |-> TimedQuadrant(Val(slots[1]), time[1].val, 0),
                 B |-> TimedQuadrant(Val(slots[2]), time[2].val, 1),
                 C |-> TimedQuadrant(Val(slots[3]), time[3].val, 2),
                 D |-> TimedQuadrant(Val(slots[4]), time[4].val, 3)])

\* TimePoint.parse_paths(path_1, path_2, path_3, path_4)
ParsePaths(path_1, path_2, path_3, path_4) ==
  LET slots == Associate(<<path_1, path_2, path_3, path_4>>, 1,
                         <<None, None, None, None>>)
      time == [k \in 1..4 |-> PathToTime(Val(slots[k]))]
  IN IF \E k \in 1..4 : IsNone(slots[k])
     THEN RaisedWith("FileNotFoundError")
     ELSE IF \E k \in 1..4 : time[k].kind = "raise"
     THEN time[CHOOSE k \in 1..4 :
                 /\ time[k].kind = "raise"
                 /\ \A l \in 1..(k - 1) : time[l].kind # "raise"]
     ELSE Found([A |-> TimedQuadrant(Val(slots[1]), time[1].val, 0),
                 B |-> TimedQuadrant(Val(slots[2]), time[2].val, 1),
                 C |-> TimedQuadrant(Val(slots[3]), time[3].val, 2),
                 D |-> TimedQuadrant(Val(slots[4]), time[4].val, 3)])

\* ------------------------------------------------------- TimePoint.export
\* time.gmtime(t): the moment <<year, month, day, hour, minute, second>> of
\* the Unix timestamp t.
GmTime(t) ==
  LET days == t \div 86400
      secs == t % 86400
      epoch == Ordinal(1970, 1, 1)
      year == CHOOSE y \in (1969 + Min2(days \div 365, days \div 366))
                              ..(1971 + Max2(days \div 365, days \div 366)) :
                /\ Ordinal(y, 1, 1) - epoch <= days
                /\ days < Ordinal(y + 1, 1, 1) - epoch
      inYear == days - (Ordinal(year, 1, 1) - epoch)
      month == CHOOSE m \in 1..12 :
                 /\ DaysBeforeMonth(year, m) <= inYear
                 /\ inYear < DaysBeforeMonth(year, m) + DaysInMonth(year, m)
  IN <<year, month, inYear - DaysBeforeMonth(year, month) + 1,
       secs \div 3600, (secs % 3600) \div 60, secs % 60>>

\* strftime('%d/%m/%Y %H:%M:%S', moment)
TwoDigits(n) == IF n < 10 THEN <<"0">> \o Digits(n) ELSE Digits(n)
StrFTime(m) ==
  TwoDigits(m[3]) \o <<"/">> \o TwoDigits(m[2]) \o <<"/">> \o Digits(m[1])
    \o <<" ">> \o TwoDigits(m[4]) \o <<":">> \o TwoDigits(m[5])
    \o <<":">> \o TwoDigits(m[6])

\* A missing radius exported as 0.
RadiusFieldZero(radius) == IF radius = NoneInt THEN Some(0) ELSE Some(radius)

\* The values of an exported field: None, or the integer v as Some(v).
RadiusField(radius) == IF radius = NoneInt THEN None ELSE Some(radius)

\* The dictionary export builds for a well of a quadrant.
ExportItem(quad, well) ==
  [timestamp_seconds |-> quad.acq_time,
   timestamp_human |-> StrFTime(GmTime(quad.acq_time)),
   quadrant |-> quad.id,
   well |-> well.id,
   spot_1_x |-> IF ~IsNone(well.spot_1)
                THEN Some(Val(well.spot_1).x) ELSE None,
   spot_1_y |-> IF ~IsNone(well.spot_1)
                THEN Some(Val(well.spot_1).y) ELSE None,
   spot_1_r |-> IF ~IsNone(well.spot_1)
                THEN RadiusField(Val(well.spot_1).radius) ELSE None,
   spot_2_x |-> IF ~IsNone(well.spot_2)
                THEN Some(Val(well.spot_2).x) ELSE None,
   spot_2_y |-> IF ~IsNone(well.spot_2)
                THEN Some(Val(well.spot_2).y) ELSE None,
   spot_2_r |-> IF ~IsNone(well.spot_2)
                THEN RadiusField(Val(well.spot_2).radius) ELSE None]

\* The list ret of export after the loops went over the wells from the
\* k-th on, in the order of iteration (quadrants A to D, wells left first).
RECURSIVE ExportFrom(_, _)
ExportFrom(tp, k) ==
  IF k > 8 THEN <<>>
  ELSE LET quad == TPQuads(tp)[((k - 1) \div 2) + 1]
           well == QuadWells(quad)[((k - 1) % 2) + 1]
       IN <<ExportItem(quad, well)>> \o ExportFrom(tp, k + 1)

\* export leaving out the wells in which no spot is detected.
ExportDetectedWells(tp) ==
  [ret |-> SelectSeq(ExportFrom(tp, 1),
                     LAMBDA item : ~IsNone(item.spot_1_x)
                                     \/ ~IsNone(item.spot_2_x)),
   self |-> tp]

\* TimePoint.export(): the list returned and the TimePoint after the call,
\* which makes no assignment to it.
Export(tp) == [ret |-> ExportFrom(tp, 1), self |-> tp]

\* ================================================ calls of the data model
\* parse_paths and export called on their own.
MaxShot == 1

\* The moment of the s-th shot of the acquisition.
Moment(s) == <<2024, 2, 29, 13, 5, s>>

\* The names the acquisition gives the images of the shots: a shot is saved
\* as .png or as .jpg.
ShotNames ==
  {ImageName(Moment(s), cam, IF s % 2 = 0 THEN Png ELSE Jpg) :
     s \in 0..MaxShot, cam \in 0..3}

\* Other names found in a folder of images:
\*   2024_2_29_13_5_0_4.png   a fifth camera;
\*   2024_2_29_13_5_0_1.PNG   an extension in capitals;
\*   shot_3.png               no moment;
\*   2024_2_29_13_5_0.png     no camera (the second is read as the camera);
\*   2024_13_1_0_0_0_2.png    a month that does not exist.
OtherNames ==
  {ImageName(Moment(0), 4, Png),
   ImageName(Moment(0), 1, <<".", "P", "N", "G">>),
   <<"s", "h", "o", "t", "_", "3">> \o Png,
   Digits(2024) \o <<"_", "2", "_", "2", "9", "_", "1", "3", "_", "5",
                     "_", "0">> \o Png,
   ImageName(<<2024, 13, 1, 0, 0, 0>>, 2, Png)}

ProbeNames == ShotNames \cup OtherNames

ParsePathsCalls ==
  {[fn |-> "parse_paths", paths |-> p, ret |-> Pending] :
     p \in ProbeNames \X ProbeNames \X ProbeNames \X ProbeNames}

\* The Spots assigned to the wells before an export: one with a radius, one
\* without.
ProbeSpots == {Spot(31, 47, 8, <<>>), Spot(5, 0, NoneInt, <<>>)}

\* An assignment well[s] = v on the well w of the quadrant q, as
\* <<q, w, s, v>>.
SpotEdits ==
  (0..3) \X (0..1) \X (0..1) \X ({None} \cup {Some(sp) : sp \in ProbeSpots})

\* The TimePoint of the s-th shot.
ShotTimePoint(s) ==
  LET ext == IF s % 2 = 0 THEN Png ELSE Jpg
  IN ParsePaths(ImageName(Moment(s), 0, ext), ImageName(Moment(s), 1, ext),
                ImageName(Moment(s), 2, ext), ImageName(Moment(s), 3, ext)).val

\* The TimePoint tp with every spot set to v.
AllSpots(tp, v) ==
  [f \in {"A", "B", "C", "D"} |->
     [tp[f] EXCEPT !.well_1 = [@ EXCEPT !.spot_1 = v, !.spot_2 = v],
                   !.well_2 = [@ EXCEPT !.spot_1 = v, !.spot_2 = v]]]

\* The TimePoint tp after the assignment ed.
Edited(tp, ed) == SetSpot(<<tp>>, 1, ed[1], ed[2], ed[3], ed[4])[1]

\* The TimePoints exported: those of the shots, with no spot or with every
\* spot detected, after two assignments.
ExportCalls ==
  {[fn |-> "export",
    self |-> Edited(Edited(AllSpots(ShotTimePoint(s), v), e1), e2),
    ret |-> Pending] :
     s \in 0..MaxShot, v \in {None, Some(Spot(31, 47, 8, <<>>))},
     e1 \in SpotEdits, e2 \in SpotEdits}

InitData ==
  /\ WindowIdle
  /\ probe \in ParsePathsCalls \cup ExportCalls

\* TimePoint.parse_paths(path_1, path_2, path_3, path_4)
ParsePathsCall ==
  /\ probe.fn = "parse_paths"
  /\ probe.ret = Pending
  /\ probe' = [probe EXCEPT !.ret =
                 ParsePaths(probe.paths[1], probe.paths[2],
                            probe.paths[3], probe.paths[4])]
  /\ UNCHANGED windowVars

\* TimePoint.export()
ExportCall ==
  /\ probe.fn = "export"
  /\ probe.ret = Pending
  /\ probe' = [probe EXCEPT !.ret = Found(Export(probe.self).ret),
                            !.self = Export(probe.self).self]
  /\ UNCHANGED windowVars

NextData == ParsePathsCall \/ ExportCall

SpecData == InitData /\ [][NextData]_vars

\* --------------------------------------------------------------- claim C17
\* The name has the suffix of the camera cam.
HasSuffix(name, cam) ==
  EndsWith(name, Digits(cam) \o Png) \/ EndsWith(name, Digits(cam) \o Jpg)

\* The Unix time of the shots whose image by the camera cam has this name:
\* shot s is taken on 29/02/2024 at 13:05:0s, 1709211900 + s.
ShotTimes ==
  [cam \in 0..3 |->
     [name \in ShotNames |->
        {1709211900 + s : s \in {t \in 0..MaxShot :
           name \in {ImageName(Moment(t), cam, Png),
                     ImageName(Moment(t), cam, Jpg)}}}]]

\* C17: the outcome of parse_paths is the same when two neighbouring paths
\* are exchanged, for any four paths, hence for the four paths given in any
\* order; given the names of four shots, one per camera 0..3, it is the
\* TimePoint whose quadrants A, B, C, D have the ids 0, 1, 2, 3, each with
\* the path of the camera of its id, the Unix time of the moment in that
\* path and two empty wells of ids 0 and 1; given four paths none of which
\* has the suffix of some camera, it raises FileNotFoundError.
C17_ParseOrderInvariant ==
  (probe.fn = "parse_paths" /\ probe.ret # Pending) =>
    LET p == probe.paths
        at == [cam \in 0..3 |-> {k \in 1..4 : /\ p[k] \in ShotNames
                                              /\ ShotTimes[cam][p[k]] # {}}]
    IN
    /\ ParsePaths(p[2], p[1], p[3], p[4]) = probe.ret
    /\ ParsePaths(p[1], p[3], p[2], p[4]) = probe.ret
    /\ ParsePaths(p[1], p[2], p[4], p[3]) = probe.ret
    /\ (\A cam \in 0..3 : at[cam] # {})
         => /\ probe.ret.kind = "found"
            /\ \A cam \in 0..3 :
                 LET quad == TPQuads(probe.ret.val)[cam + 1]
                 IN /\ quad.id = cam
                    /\ \E k \in at[cam] :
                         /\ quad.path = p[k]
                         /\ {quad.acq_time} = ShotTimes[cam][p[k]]
                    /\ quad.well_1 = Well(0)
                    /\ quad.well_2 = Well(1)
    /\ (\E cam \in 0..3 : \A k \in 1..4 : ~HasSuffix(p[k], cam))
         => probe.ret = RaisedWith("FileNotFoundError")

\* C17 witness: parse_paths built a TimePoint from the paths of the cameras
\* 3, 0, 2, 1 in this order, taken at different moments.
C17_Witness ==
  /\ probe.fn = "parse_paths"
  /\ probe.ret.kind = "found"
  /\ HasSuffix(probe.paths[1], 3)
  /\ HasSuffix(probe.paths[2], 0)
  /\ HasSuffix(probe.paths[3], 2)
  /\ HasSuffix(probe.paths[4], 1)
  /\ probe.ret.val.A.acq_time # probe.ret.val.D.acq_time

\* --------------------------------------------------------------- claim C18
\* The name is six numbers, each followed by an underscore, then one of the
\* digits 0 to 3, then .jpg or .png: read from its end, it has the
\* extension, the digit and an underscore, and what remains is made of
\* digits and five single underscores, none of them first or last.
MatchesPattern(name) ==
  LET n == Len(name)
      stem == SubSeq(name, 1, n - 6)
  IN /\ n >= 17
     /\ SubSeq(name, n - 3, n) \in {Jpg, Png}
     /\ name[n - 4] \in {"0", "1", "2", "3"}
     /\ name[n - 5] = "_"
     /\ \A k \in 1..Len(stem) : stem[k] = "_" \/ IsDigit(stem[k])
     /\ Cardinality({k \in 1..Len(stem) : stem[k] = "_"}) = 5
     /\ stem[1] # "_" /\ stem[Len(stem)] # "_"
     /\ \A k \in 1..(Len(stem) - 1) : ~(stem[k] = "_" /\ stem[k + 1] = "_")

\* C18: parse_paths returns a TimePoint only if each of its four paths
\* matches the pattern, and then each path is the path of a quadrant of the
\* TimePoint; if one of the four does not match, the call raises.
C18_MismatchRaises ==
  (probe.fn = "parse_paths" /\ probe.ret # Pending) =>
    /\ probe.ret.kind \in {"found", "raise"}
    /\ probe.ret.kind = "found" =>
         \A k \in 1..4 :
           /\ MatchesPattern(probe.paths[k])
           /\ \E quad \in {probe.ret.val.A, probe.ret.val.B,
                           probe.ret.val.C, probe.ret.val.D} :
                quad.path = probe.paths[k]
    /\ (\E k \in 1..4 : ~MatchesPattern(probe.paths[k])) =>
         probe.ret \in {RaisedWith("FileNotFoundError"),
                        RaisedWith("AttributeError"),
                        RaisedWith("ValueError")}

\* C18 witness: parse_paths raised AttributeError on four paths with the
\* suffixes of the four cameras, one of which does not match the pattern.
C18_Witness ==
  /\ probe.fn = "parse_paths"
  /\ probe.ret = RaisedWith("AttributeError")
  /\ \A cam \in 0..3 : \E k \in 1..4 : HasSuffix(probe.paths[k], cam)
  /\ Cardinality({k \in 1..4 : MatchesPattern(probe.paths[k])}) = 3

\* --------------------------------------------------------------- claim C19
\* The three exported fields <<x, y, r>> of the spot s of a record.
SpotFields(item, s) ==
  IF s = 0 THEN <<item.spot_1_x, item.spot_1_y, item.spot_1_r>>
  ELSE <<item.spot_2_x, item.spot_2_y, item.spot_2_r>>

\* 29/02/2024 13:05:0s, the moment of the shot s.
HumanTime(s) ==
  <<"2", "9", "/", "0", "2", "/", "2", "0", "2", "4", " ",
    "1", "3", ":", "0", "5", ":", "0">> \o Digits(s)

Rehydrated(fields) ==
  IF IsNone(fields[1]) THEN None
  ELSE Some(Spot(Val(fields[1]), Val(fields[2]),
                 IF IsNone(fields[3]) THEN NoneInt ELSE Val(fields[3]),
                 <<>>))

\* C20: an export call leaves the TimePoint as it was, and the Spots built
\* back from the records it returns have, well by well, the x, the y and
\* the radius of the spots of the TimePoint, a missing radius included; a
\* spot is built back as None exactly where the TimePoint has none.
C20_ExportLossless ==
  [][(probe.fn = "export" /\ probe.ret = Pending /\ probe'.ret # Pending) =>
       /\ probe'.self = probe.self
       /\ probe'.ret.kind = "found"
       /\ \A q \in 0..3, wi \in 0..1, si \in 0..1 :
            LET held == SpotAt(<<probe.self>>, 1, q, wi, si)
                back == Rehydrated(SpotFields(
                          probe'.ret.val[2 * q + wi + 1], si))
            IN /\ IsNone(back) <=> IsNone(held)
               /\ ~IsNone(held) =>
                    /\ Val(back).x = Val(held).x
                    /\ Val(back).y = Val(held).y
                    /\ Val(back).radius = Val(held).radius]_vars

\* C20 witness: export returned on a TimePoint that has, in one well, a
\* spot without radius and no other spot, and elsewhere a spot with a
\* radius.
C20_Witness ==
  /\ probe.fn = "export"
  /\ probe.ret.kind = "found"
  /\ \E q \in 0..3, wi \in 0..1 :
       LET well == WellAt(<<probe.self>>, 1, q, wi)
       IN /\ ~IsNone(well.spot_1)
          /\ Val(well.spot_1).radius = NoneInt
          /\ IsNone(well.spot_2)
  /\ \E q \in 0..3, wi \in 0..1, si \in 0..1 :
       LET held == SpotAt(<<probe.self>>, 1, q, wi, si)
       IN ~IsNone(held) /\ Val(held).radius # NoneInt

\* ===================================================== the structure calls
\* Spot.__sub__, Well.distance and the assignments of spots, applied to
\* bounded inputs. The call is held in probe; the window is idle.

\* The coordinates of the Spots subtracted and measured.
Coords == {0, 3, 7}

\* The number of assignments made on one TimePoint.
MaxAssign == 2

GeoSpots ==
  {Spot(x, y, r, <<>>) : x \in Coords, y \in Coords, r \in {NoneInt, 8}}

SpotSubKeepsRadius(s1, s2) == Spot(s1.x - s2.x, s1.y - s2.y, s1.radius, <<>>)

\* Spot.__sub__(self, other)
SpotSub(s1, s2) == Spot(s1.x - s2.x, s1.y - s2.y, NoneInt, <<>>)

\* linalg.norm((x, y)): the float is held by its square, which is exact.
NormSquared(x, y) == x * x + y * y

\* Well.distance
WellDistance(well) ==
  IF ~IsDefined(well) THEN RaisedWith("ValueError")
  ELSE LET diff == SpotSub(Val(well.spot_1), Val(well.spot_2))
       IN Found(NormSquared(diff.x, diff.y))

SpotSubCalls ==
  {[fn |-> "sub", s1 |-> a, s2 |-> b, ret |-> Pending] :
     a \in GeoSpots, b \in GeoSpots}

WellDistanceCalls ==
  {[fn |-> "distance",
    self |-> [Well(0) EXCEPT !.spot_1 = a, !.spot_2 = b],
    ret |-> Pending] :
     a \in {None} \cup {Some(sp) : sp \in GeoSpots},
     b \in {None} \cup {Some(sp) : sp \in GeoSpots}}

\* The slots <<q, w, s>> of the spots of one TimePoint.
SpotSlots == (0..3) \X (0..1) \X (0..1)

\* The TimePoints the assignments start from: no spot, or every spot
\* detected. spots records the slots whose last assignment was a Spot.
AssignStarts ==
  {[fn |-> "assign", self |-> NewTimePoint(0), spots |-> {}, n |-> 0],
   [fn |-> "assign",
    self |-> AllSpots(NewTimePoint(0), Some(Spot(31, 47, 8, <<>>))),
    spots |-> SpotSlots, n |-> 0]}

\* The values assigned: a deletion or a detected Spot.
AssignValues == {None, Some(Spot(31, 47, 8, <<>>))}

InitStructure ==
  /\ WindowIdle
  /\ probe \in SpotSubCalls \cup WellDistanceCalls \cup AssignStarts

\* s1 - s2
SpotSubCall ==
  /\ probe.fn = "sub"
  /\ probe.ret = Pending
  /\ probe' = [probe EXCEPT !.ret = Found(SpotSub(probe.s1, probe.s2))]
  /\ UNCHANGED windowVars

\* well.distance
WellDistanceCall ==
  /\ probe.fn = "distance"
  /\ probe.ret = Pending
  /\ probe' = [probe EXCEPT !.ret = WellDistance(probe.self)]
  /\ UNCHANGED windowVars

\* The slots recorded after the assignment of v to the slot sl.
Recorded(spots, sl, v) ==
  IF IsNone(v) THEN spots \ {sl} ELSE spots \cup {sl}

\* well[index] = value, on the well w of the quadrant q
SetByIndex ==
  /\ probe.fn = "assign"
  /\ probe.n < MaxAssign
  /\ \E q \in 0..3, wl \in 0..1, index \in {-2, -1, 0, 1}, v \in AssignValues :
       probe' =
         [probe EXCEPT
            !.self[QuadField(q)][WellField(wl)] = WellSetItem(@, index, v),
            !.spots = Recorded(@, <<q, wl, IF index \in {-2, 0} THEN 0 ELSE 1>>,
                               v),
            !.n = @ + 1]
  /\ UNCHANGED windowVars

\* well.spot_1 = value, well.spot_2 = value
SetByAttribute ==
  /\ probe.fn = "assign"
  /\ probe.n < MaxAssign
  /\ \E q \in 0..3, wl \in 0..1, s \in 0..1, v \in AssignValues :
       probe' =
         [probe EXCEPT
            !.self[QuadField(q)][WellField(wl)][SpotField(s)] = v,
            !.spots = Recorded(@, <<q, wl, s>>, v),
            !.n = @ + 1]
  /\ UNCHANGED windowVars

NextStructure ==
  SpotSubCall \/ WellDistanceCall \/ SetByIndex \/ SetByAttribute

SpecStructure == InitStructure /\ [][NextStructure]_vars

\* --------------------------------------------------------------- claim C21
\* C21: s1 - s2 is a new Spot with x = s1.x - s2.x, y = s1.y - s2.y and no
\* radius, and leaves s1 and s2 as they were; Well.distance raises ValueError
\* when a spot of the well is missing, and otherwise its square is
\* (x1 - x2)^2 + (y1 - y2)^2, the same with the two spots exchanged; the well
\* is left as it was.
Exchanged(well) ==
  [well EXCEPT !.spot_1 = well.spot_2, !.spot_2 = well.spot_1]

C21_DifferenceAndDistance ==
  [][/\ (probe.fn = "sub") =>
          /\ probe'.s1 = probe.s1
          /\ probe'.s2 = probe.s2
          /\ probe'.ret.kind = "found"
          /\ probe'.ret.val.x = probe.s1.x - probe.s2.x
          /\ probe'.ret.val.y = probe.s1.y - probe.s2.y
          /\ probe'.ret.val.radius = NoneInt
     /\ (probe.fn = "distance") =>
          /\ probe'.self = probe.self
          /\ (IsNone(probe.self.spot_1) \/ IsNone(probe.self.spot_2)) =>
               probe'.ret = RaisedWith("ValueError")
          /\ (~IsNone(probe.self.spot_1) /\ ~IsNone(probe.self.spot_2)) =>
               LET a == Val(probe.self.spot_1)
                   b == Val(probe.self.spot_2)
               IN /\ probe'.ret =
                       Found((a.x - b.x) * (a.x - b.x)
                             + (a.y - b.y) * (a.y - b.y))
                  /\ probe'.ret = WellDistance(Exchanged(probe.self))]_vars

\* The distance 5 of two spots 3 and 4 pixels apart, and the difference of
\* two spots that have a radius.
C21_Witness ==
  \/ /\ probe.fn = "distance"
     /\ probe.ret = Found(25)
     /\ Val(probe.self.spot_1).x < Val(probe.self.spot_2).x
  \/ /\ probe.fn = "sub"
     /\ probe.ret # Pending
     /\ probe.s1.radius = 8
     /\ probe.s2.radius = 8
     /\ probe.ret.val.x < 0

\* --------------------------------------------------------------- claim C22
\* C22: after any assignments of spots, by attribute or by index, a well is
\* defined iff both its spots were last assigned a Spot, a Quadrant is truthy
\* iff one of its two wells is defined, and a TimePoint is truthy iff one of
\* its four quadrants is truthy; each spot is present iff its last assignment
\* was a Spot.
BothRecorded(spots, q, wl) == <<q, wl, 0>> \in spots /\ <<q, wl, 1>> \in spots

C22_DefinedFromSpots ==
  (probe.fn = "assign") =>
    /\ \A sl \in SpotSlots :
         ~IsNone(SpotAt(<<probe.self>>, 1, sl[1], sl[2], sl[3]))
           <=> sl \in probe.spots
    /\ \A q \in 0..3 :
         /\ \A wl \in 0..1 :
              IsDefined(WellAt(<<probe.self>>, 1, q, wl))
                <=> BothRecorded(probe.spots, q, wl)
         /\ QuadBool(probe.self[QuadField(q)])
              <=> \E wl \in 0..1 : BothRecorded(probe.spots, q, wl)
    /\ TPBool(probe.self)
         <=> \E q \in 0..3, wl \in 0..1 : BothRecorded(probe.spots, q, wl)

\* Two deletions leave the quadrant A with one spot in each well: it is not
\* truthy, while the TimePoint still is.
C22_Witness ==
  /\ probe.fn = "assign"
  /\ probe.n = 2
  /\ probe.spots = SpotSlots \ {<<0, 0, 0>>, <<0, 1, 1>>}
  /\ ~IsDefined(probe.self.A.well_1)
  /\ ~QuadBool(probe.self.A)
  /\ TPBool(probe.self)

\* --------------------------------------------------------------- claim C23
\* C23: a call of detect_spot or track_spot, whether it returns a Spot, None
\* or raises, leaves the image and the prior Spot it was handed as they
\* were, changes nothing of the window, and its outcome is the one its
\* arguments determine: nothing is kept from one call to the next.
EngineOutcome(c) ==
  IF c.fn = "detect_spot"
  THEN DetectSpot(c.image, c.y_1, c.x_1, c.y_2, c.x_2, c.min_radius,
                  c.max_radius)
  ELSE TrackSpot(c.image, c.spot, c.offset, c.min_radius, c.max_radius)

RoiShape(c) ==
  IF c.fn = "detect_spot"
  THEN <<BoxRows(c)[2] - BoxRows(c)[1], BoxCols(c)[2] - BoxCols(c)[1]>>
  ELSE LET rows == PySlice(SquareRows(c)[1], SquareRows(c)[2], c.image.rows)
           cols == PySlice(SquareCols(c)[1], SquareCols(c)[2], c.image.cols)
       IN <<rows[2] - rows[1], cols[2] - cols[1]>>

PrevRad(c) == IF c.fn = "detect_spot" THEN NoneInt ELSE c.spot.radius

BandHanded(c) ==
  <<MinRad(RoiShape(c), c.min_radius, PrevRad(c)),
    MaxRad(RoiShape(c), c.max_radius, PrevRad(c))>>

\* The radii a circle of the sub-image can have.
Radii == 0..240

\* C28 (as stated): the radii the circle search accepts are those of the
\* band [shorter side / 4, shorter side * 2] for a detection and
\* [prior radius * 0.75, prior radius * 1.25] for a tracking, tightened by
\* the limits of the caller that are given.
C28_BandAsStated ==
  (/\ probe.fn \in {"detect_spot", "track_spot"}
   /\ probe.ret.kind \in {"found", "none"}) =>
    LET side == Min2(RoiShape(probe)[1], RoiShape(probe)[2])
        band == BandHanded(probe)
    IN \A r \in Radii :
         (band[1] <= r /\ r <= band[2])
           <=> /\ IF probe.fn = "detect_spot"
                  THEN side <= 4 * r /\ r <= 2 * side
                  ELSE /\ 3 * probe.spot.radius <= 4 * r
                       /\ 4 * r <= 5 * probe.spot.radius
               /\ probe.min_radius # NoneInt => probe.min_radius <= r
               /\ probe.max_radius # NoneInt => r <= probe.max_radius

\* ============================================ the window of user_interface
\* MainWindow of user_interface.py: load_images and the slots that move in
\* time.  probe holds the window (self), the slot called last (fn) and how
\* it ended (ret); the worker is idle.

\* The number of timepoints of the largest folder loaded.
MaxImages == 8

\* A Python value with its type: 'A' == 0 is False, not an error.
PyStr(v) == [type |-> "str", val |-> v]

\* TimePoint.__getitem__(item)
TimePointGetItem(tp, item) ==
  IF item.type = "int" /\ item.val = 0 THEN Found(tp.A)
  ELSE IF item.type = "int" /\ item.val = 1 THEN Found(tp.B)
  ELSE IF item.type = "int" /\ item.val = 2 THEN Found(tp.C)
  ELSE IF item.type = "int" /\ item.val = 3 THEN Found(tp.D)
  ELSE RaisedWith("AttributeError")

\* self._timepoints[self._time_idx][self._quadrant], the timepoints being
\* indexed from 0; a negative index counts from the end of the list.
DisplayedQuadrant(self) ==
  LET n == Cardinality(DOMAIN self.timepoints)
      idx == IF self.time_idx < 0 THEN self.time_idx + n ELSE self.time_idx
  IN IF idx \notin DOMAIN self.timepoints THEN RaisedWith("IndexError")
     ELSE TimePointGetItem(self.timepoints[idx], self.quadrant)

\* The value a slot ends with after image_loaded.emit(value of lookup).
Emitted(lookup) == IF lookup.kind = "raise" THEN lookup ELSE Found(<<>>)

\* MainWindow.__init__
NewWindow ==
  [timepoints |-> <<>>, time_idx |-> 0, quadrant |-> PyStr("A"),
   time_to_index |-> <<>>]

\* path_to_str(time_point.A.path) of the timepoint t.
TimeStr(t) == <<"t", t>>

InitWindow ==
  /\ WindowIdle
  /\ probe = [fn |-> "__init__", self |-> NewWindow, ret |-> Found(<<>>)]

\* MainWindow.load_images on a folder of m images whose names are those of
\* m \div 4 shots, and of an unfinished one when 4 does not divide m.
LoadImages ==
  /\ probe.fn \in {"__init__", "load_images", "select_time", "prev_time",
                   "next_time"}
  /\ \E m \in 0..(4 * MaxImages) :
       LET n == m \div 4
           loaded == [probe.self EXCEPT
                        !.timepoints = [t \in 0..(n - 1) |-> NewTimePoint(t)],
                        !.time_idx = 0,
                        !.quadrant = PyStr("A")]
           lookup == DisplayedQuadrant(loaded)
       IN IF m % 4 # 0
          THEN probe' = [fn |-> "load_images", self |-> loaded,
                         ret |-> RaisedWith("ValueError")]
          ELSE IF lookup.kind = "raise"
          THEN probe' = [fn |-> "load_images", self |-> loaded,
                         ret |-> lookup]
          ELSE probe' = [fn |-> "load_images",
                         self |-> [loaded EXCEPT !.time_to_index =
                                     [k \in {TimeStr(t) : t \in 0..(n - 1)}
                                        |-> k[2]]],
                         ret |-> Found(<<>>)]
  /\ UNCHANGED windowVars

\* MainWindow.select_time(value)
SelectTime ==
  /\ probe.fn \in {"load_images", "select_time", "prev_time", "next_time"}
  /\ \E t \in 0..(MaxImages - 1) :
       IF TimeStr(t) \notin DOMAIN probe.self.time_to_index
       THEN probe' = [probe EXCEPT !.fn = "select_time",
                                   !.ret = RaisedWith("KeyError")]
       ELSE LET moved == [probe.self EXCEPT
                            !.time_idx = probe.self.time_to_index[TimeStr(t)]]
            IN probe' = [fn |-> "select_time", self |-> moved,
                         ret |-> Emitted(DisplayedQuadrant(moved))]
  /\ UNCHANGED windowVars

\* MainWindow.prev_time()
PrevTime ==
  /\ probe.fn \in {"load_images", "select_time", "prev_time", "next_time"}
  /\ IF probe.self.time_idx <= 0
     THEN probe' = [probe EXCEPT !.fn = "prev_time", !.ret = Found(<<>>)]
     ELSE LET moved == [probe.self EXCEPT !.time_idx = @ - 1]
          IN probe' = [fn |-> "prev_time", self |-> moved,
                       ret |-> Emitted(DisplayedQuadrant(moved))]
  /\ UNCHANGED windowVars

\* MainWindow.next_time()
NextTime ==
  /\ probe.fn \in {"load_images", "select_time", "prev_time", "next_time"}
  /\ IF probe.self.time_idx >= Cardinality(DOMAIN probe.self.timepoints)
     THEN probe' = [probe EXCEPT !.fn = "next_time", !.ret = Found(<<>>)]
     ELSE LET moved == [probe.self EXCEPT !.time_idx = @ + 1]
          IN probe' = [fn |-> "next_time", self |-> moved,
                       ret |-> Emitted(DisplayedQuadrant(moved))]
  /\ UNCHANGED windowVars

NextWindow == LoadImages \/ SelectTime \/ PrevTime \/ NextTime

SpecWindow == InitWindow /\ [][NextWindow]_vars

\* --------------------------------------------------------------- claim C30
\* C30 (as stated): once images are loaded, after any prev_time, next_time
\* and select_time the time index of the window is the index of a timepoint,
\* 0 <= time_idx <= len(timepoints) - 1.
C30_TimeIndexInRange ==
  (/\ probe.fn \in {"load_images", "select_time", "prev_time", "next_time"}
   /\ probe.self.timepoints # <<>>) =>
    probe.self.time_idx \in DOMAIN probe.self.timepoints

\* --------------------------------------------------------------- claim C24
\* C24 (as stated): a well-track lost at timepoint t in an earlier run, and
\* not edited by hand since, is left alone by every later run: no track_spot
\* call is made for that well at t or at a later timepoint.
C24_LostNotRetried ==
  [][Len(calls') = Len(calls) + 1 =>
       LET c == calls'[Len(calls')]
       IN \A l \in lost : ~(l[1] = c.q /\ l[2] = c.w /\ l[3] <= c.t)]_vars

\* --------------------------------------------------------------- claim C29
\* C29 (as stated): every track_spot call of the worker for a spot of
\* timepoint t reads the image of timepoint t of the designated quadrant.
C29_TrackedOnOwnImage ==
  \A k \in 1..Len(calls) : calls[k].img = <<calls[k].t, quadrant>>

\* --------------------------------------------------------------- claim C25
\* The progress signals the current run emitted, one per pair of timepoints
\* it started.
ProgressSignals == SelectSeq(signals, LAMBDA sg : sg.sig = "track_progress")

\* len(timepoints) - 1, and 0 for an empty sequence.
NbPairs == IF NbTimepoints = 0 THEN 0 ELSE NbTimepoints - 1

\* C25: every run ends (the worker is again and again not running), whatever
\* the timepoints (none or a single one included); it starts at most len(timepoints) - 1 pairs of timepoints, one
\* after the other; and once the stop flag is set the worker takes no step at
\* the head of the loop other than to return or to end: it finishes the
\* timepoint it is on and does not start the next one.
C25_RunTerminates ==
  /\ []<>(~Running)
  /\ [](/\ Len(ProgressSignals) <= NbPairs
        /\ Running => (i <= NbPairs /\ Len(ProgressSignals) \in {i, i + 1}))
  /\ [][(Running /\ stop_thread) =>
          /\ pc = "head" => pc' \in {"returned", "done"}
          /\ pc # "head" => (i' = i \/ (i' = i + 1 /\ pc' = "head"))
          /\ pc' = "returned" => UNCHANGED <<timepoints, calls>>]_vars

\* C25 witness: the stop flag was set while the worker was on timepoint 1 of
\* three; it stored the spots of that timepoint and returned at the head of
\* the loop for timepoint 2.
C25_Witness ==
  /\ pc = "returned"
  /\ NbTimepoints = 3
  /\ i = 1
  /\ Len(ProgressSignals) = 2
  /\ Len(calls) = 2
  /\ \A k \in 1..Len(calls) : calls[k].t = 1 /\ calls[k].ret.kind = "found"

\* --------------------------------------------------------------- claim C26
\* The processing_done signals the current run emitted.
DoneSignals == SelectSeq(signals, LAMBDA sg : sg.sig = "processing_done")

\* What C26 states but for the range of the progress values, ps being the
\* progress signals of the run: the k-th progress value of a run is
\* int(k / (n - 1) * 1000), the values do not decrease and the one of the
\* last pair of timepoints is 1000; processing_done is emitted once, as the
\* last signal, by a run that ends without being cancelled, after every pair
\* of timepoints was started, and by no other run.
NotificationsInOrder(ps) ==
  /\ \A k \in 1..Len(ps) :
       /\ ps[k].val * NbPairs <= k * 1000
       /\ k * 1000 < (ps[k].val + 1) * NbPairs
       /\ k > 1 => ps[k - 1].val <= ps[k].val
       /\ k = NbPairs => ps[k].val = 1000
  /\ IF pc = "done"
     THEN /\ Len(DoneSignals) = 1
          /\ signals[Len(signals)].sig = "processing_done"
          /\ Len(ps) = NbPairs
     ELSE Len(DoneSignals) = 0

\* C26 (as stated): the notifications are as above and every progress value
\* lies within 1..1000.
C26_ProgressFromOne ==
  \A ps \in {ProgressSignals} :
    /\ NotificationsInOrder(ps)
    /\ \A k \in 1..Len(ps) : ps[k].val \in 1..1000

\* C26 (amended): the notifications are as above and every progress value
\* lies within 0..1000; it is at least 1 when the run has at most 1000 pairs
\* of timepoints.
C26_Notifications ==
  \A ps \in {ProgressSignals} :
    /\ NotificationsInOrder(ps)
    /\ \A k \in 1..Len(ps) :
         /\ ps[k].val \in 0..1000
         /\ NbPairs <= 1000 => ps[k].val >= 1

\* C26 witness: a run over the long acquisition ended: its first progress
\* value is 0, its last one 1000, and processing_done follows.
C26_Witness ==
  /\ pc = "done"
  /\ NbTimepoints = LongRun
  /\ ProgressSignals[1].val = 0
  /\ ProgressSignals[NbPairs].val = 1000
  /\ Len(DoneSignals) = 1

\* --------------------------------------------------------------- claim C27
\* The part of the image an engine call hands to _detect_spot, and the
\* circles the search fits on it.
RoiRows(c) ==
  IF c.fn = "detect_spot"
  THEN PySlice(BoxRows(c)[1], BoxRows(c)[2], c.image.rows)
  ELSE PySlice(SquareRows(c)[1], SquareRows(c)[2], c.image.rows)

RoiCols(c) ==
  IF c.fn = "detect_spot"
  THEN PySlice(BoxCols(c)[1], BoxCols(c)[2], c.image.cols)
  ELSE PySlice(SquareCols(c)[1], SquareCols(c)[2], c.image.cols)

Candidates(c) ==
  HoughCircles(c.image, RoiRows(c), RoiCols(c),
               BandHanded(c)[1], BandHanded(c)[2])

\* The search of the call c runs: the part of the image is not empty.
Searched(c) == RoiShape(c)[1] > 0 /\ RoiShape(c)[2] > 0

\* The outcome ret of the call c is the single circle fitted, or None when
\* no circle or several circles were fitted.
SingleOrNone(c, ret) ==
  IF Cardinality(Candidates(c)) = 1
  THEN /\ ret.kind = "found"
       /\ \A d \in Candidates(c) : ret.val[3] = d.r
  ELSE ret = NotFound

\* The call the worker makes for a seed on the image of path.
WorkerCall(seed, path) ==
  [fn |-> "track_spot", image |-> ImageOf(imgseq, path), spot |-> Val(seed),
   offset |-> Offset, min_radius |-> min_radius, max_radius |-> max_radius]

\* The call the scene makes when the operator releases the rectangle rect.
SceneCall(rect) ==
  [fn |-> "detect_spot", image |-> SceneImg, y_1 |-> rect[1],
   x_1 |-> rect[2], y_2 |-> rect[3], x_2 |-> rect[4],
   min_radius |-> NoneInt, max_radius |-> NoneInt]

\* An engine call that searched returned the single circle fitted or None.
EngineNeverGuesses ==
  (probe.fn \in {"detect_spot", "track_spot"} /\ probe.ret # Pending
     /\ Searched(probe)) => SingleOrNone(probe, probe.ret)

\* A track_spot call of the worker returned the single circle fitted or
\* None, and the timepoints are as they were after a call that returned None.
WorkerNeverGuesses ==
  Len(calls') = Len(calls) + 1 =>
    LET c == calls'[Len(calls')]
    IN /\ (~IsNone(c.seed) /\ Searched(WorkerCall(c.seed, c.img))) =>
            SingleOrNone(WorkerCall(c.seed, c.img), c.ret)
       /\ c.ret.kind # "found" => timepoints' = timepoints
       /\ c.ret.kind = "found" =>
            /\ ~IsNone(SpotAt(timepoints', c.t, c.q, c.w, c.s))
            /\ Val(SpotAt(timepoints', c.t, c.q, c.w, c.s)).radius
                 = c.ret.val[3]

\* A manual detection drags one of the rectangles of the operator: the post
\* selected holds the single circle fitted in it, or the timepoints and the
\* selection are as they were when no circle or several were fitted.
SceneNeverGuesses ==
  ManualDetect =>
    \E kind \in RectKindsFor(selected) :
      LET c == SceneCall(SelectRect(time_idx, selected, kind))
          slot == SpotAt(timepoints', time_idx, quadrant, selected \div 2,
                         selected % 2)
      IN IF Cardinality(Candidates(c)) = 1
         THEN /\ ~IsNone(slot)
              /\ \A d \in Candidates(c) : Val(slot).radius = d.r
         ELSE UNCHANGED <<timepoints, selected>>

\* C27: an engine returns a circle only when the search fitted exactly one;
\* when it fitted none or several the engine returns None, and the worker
\* and the manual detection, which store a spot only for a result that is
\* not None, leave the timepoints as they were.
C27_NeverGuessed ==
  /\ []EngineNeverGuesses
  /\ [][WorkerNeverGuesses /\ SceneNeverGuesses]_vars

\* C27 witness: a track_spot call whose square holds the two discs of the
\* blob, as far from each other as the square is wide, returned None.
C27_Witness ==
  /\ probe.fn = "track_spot"
  /\ probe.image = TwoLobes
  /\ probe.ret = NotFound
  /\ Searched(probe)
  /\ Cardinality(Candidates(probe)) = 2

====
